---- MODULE Spec2Model ----
(***************************************************************************)
(* Model of the dynamo consumer (golden-vcr/dynamo): the image_request /   *)
(* image / answer tables and their queries, the ledger reservation held by *)
(* a handler, the request handler handleImageRequest step by step, and the *)
(* errgroup worker pool of cmd/consumer/main.go that runs one handler task *)
(* per inbound message.                                                    *)
(*                                                                         *)
(* Conventions.  An external call (auth, ledger, database, generation,     *)
(* object store, event producer) is atomic: it either takes effect and     *)
(* returns nil, or has no effect and returns an error.  Every call is      *)
(* issued with the handler's context and fails once that context is        *)
(* cancelled; with a live context it may still fail (transport or database *)
(* error), except the ledger's reject request, which is taken to reach the *)
(* ledger whenever it is sent with a live context.                         *)
(***************************************************************************)
EXTENDS Integers, Sequences, FiniteSets, TLC

\* ------------------------------------------------------------------ bounds

\* Number of messages delivered on the inbound channel (one task each).
MaxTasks == 1

\* Number of distinct request ids the repository is exercised with.
MaxUuids == 2

\* Largest value of the database clock now() in the repository specification.
MaxClock == 3

Tasks == 1 .. MaxTasks

\* uuid values: uuid.New() never repeats, so task h draws the uuid h.
Uuids == 1 .. (IF MaxUuids > MaxTasks THEN MaxUuids ELSE MaxTasks)

\* ----------------------------------------------------------------- strings

\* A string is the sequence of its characters.  A constant text of the source
\* that no operation looks into is kept as one element.
Vowels == {"a", "e", "i", "o", "u"}

\* strings.HasPrefix(s, p)
HasPrefix(s, p) == Len(s) >= Len(p) /\ SubSeq(s, 1, Len(p)) = p

\* s[n:]
Drop(s, n) == SubSeq(s, n + 1, Len(s))

\* Color.GetComplement(): the name of the complementary color.
Complement(color) == <<"complement(">> \o color \o <<")">>

\* formatPrompt indexes color[0] when the subject begins with "a " or "an ";
\* on an empty color that is an index out of range, a panic.
FormatPromptPanics(style, inputs) ==
    /\ style = "friend"
    /\ inputs.color = << >>
    /\ \/ HasPrefix(inputs.subject, <<"a", " ">>)
       \/ HasPrefix(inputs.subject, <<"a", "n", " ">>)

\* FormatPrompt for style friend that keeps the subject's own article.
FormatPrompt_KeepArticle(style, inputs) ==
    CASE style = "ghost" ->
           <<"a ghostly image of ">> \o inputs.subject
              \o <<", with glitchy VHS artifacts, dark background">>
      [] style = "friend" ->
           inputs.subject
              \o <<", illustrated in the style of 1990s digital clip art images",
                     ", with a limited 256-color palette and sharp black outlines, with a solid ">>
              \o Complement(inputs.color)
              \o <<" background suitable for chroma keying">>
      [] OTHER -> <<"a sign that says BAD STYLE, UNABLE TO FORMAT PROMPT">>

\* formatPrompt
FormatPrompt(style, inputs) ==
    CASE style = "ghost" ->
           <<"a ghostly image of ">> \o inputs.subject
              \o <<", with glitchy VHS artifacts, dark background">>
      [] style = "friend" ->
           LET color == inputs.color
               given == inputs.subject
               newArticle == IF color[1] \in Vowels THEN <<"a", "n">> ELSE <<"a">>
               article == IF HasPrefix(given, <<"a", " ">>) THEN newArticle
                          ELSE IF HasPrefix(given, <<"a", "n", " ">>) THEN newArticle
                          ELSE << >>
               subject == IF HasPrefix(given, <<"a", " ">>) THEN Drop(given, 2)
                          ELSE IF HasPrefix(given, <<"a", "n", " ">>) THEN Drop(given, 3)
                          ELSE IF HasPrefix(given, <<"t", "h", "e", " ">>) THEN Drop(given, 4)
                          ELSE given
           IN  article \o <<" ">> \o color \o <<" ">> \o subject
                  \o <<", illustrated in the style of 1990s digital clip art images",
                     ", with a limited 256-color palette and sharp black outlines, with a solid ">>
                  \o Complement(color)
                  \o <<" background suitable for chroma keying">>
      [] OTHER -> <<"a sign that says BAD STYLE, UNABLE TO FORMAT PROMPT">>

HexDigits ==
    {"0", "1", "2", "3", "4", "5", "6", "7", "8", "9", "a", "b", "c", "d", "e", "f"}

\* The characters the regexp class \w matches.
WordChars ==
    HexDigits \cup
    {"g", "h", "i", "j", "k", "l", "m", "n", "o", "p", "q", "r", "s", "t", "u",
     "v", "w", "x", "y", "z", "_",
     "A", "B", "C", "D", "E", "F", "G", "H", "I", "J", "K", "L", "M", "N", "O",
     "P", "Q", "R", "S", "T", "U", "V", "W", "X", "Y", "Z"}

\* ParseColor that also takes the digits A-F.
ParseColor_AnyCase(s) ==
    IF /\ Len(s) >= 7
       /\ s[1] = "#"
       /\ \A i \in 2 .. 7 : s[i] \in HexDigits \cup {"A", "B", "C", "D", "E", "F"}
       /\ (Len(s) = 7 \/ s[8] \notin WordChars)
    THEN [ok |-> TRUE, color |-> SubSeq(s, 1, 7)]
    ELSE [ok |-> FALSE, color |-> << >>]

\* parseColor: the submatch of regexHexColor = `^(#[0-9a-f]{6})\b`, which
\* matches at the start of the text only; "not a hex color" when there is none.
ParseColor(s) ==
    IF /\ Len(s) >= 7
       /\ s[1] = "#"
       /\ \A i \in 2 .. 7 : s[i] \in HexDigits
       /\ (Len(s) = 7 \/ s[8] \notin WordChars)
    THEN [ok |-> TRUE, color |-> SubSeq(s, 1, 7)]
    ELSE [ok |-> FALSE, color |-> << >>]

\* cliRunner.RemoveBackground: the error of the command when it did not exit
\* with 0, and otherwise parseColor of what it wrote to standard error.
RemoveBackground(exit0, stderr) ==
    IF exit0 THEN ParseColor(stderr) ELSE [ok |-> FALSE, color |-> << >>]

\* What the imf command may write to standard error.
StderrSamples ==
    { <<"#", "f", "f", "e", "e", "0", "1", "\n", "s", "o", "m", "e", "t", "h", "i", "n", "g", " ", "e", "l", "s", "e", "\n">>,
      <<"h", "e", "l", "l", "o", " ", "w", "o", "r", "l", "d">>,
      <<"#", "F", "F", "E", "E", "0", "1", "\n">> }

\* backgroundColor := "#000000"
Black == <<"#", "0", "0", "0", "0", "0", "0">>

\* ------------------------------------------------------------ the database

\* SQL NULL of a timestamptz column (finished_at); timestamps start at 1.
NullTime == 0

\* SQL NULL of a text column (error_message); messages are non-empty tuples.
NullText == << >>

ErrorMessages == {<<"something went wrong">>, <<"oh no">>}

VARIABLES
    image_request,   \* dynamo.image_request: set of rows, id is the primary key
    image,           \* dynamo.image: set of rows, (image_request_id, index) unique
    answer,          \* dynamo.answer: sequence of rows (no key)
    clock,           \* the database clock now()
    lastCall,        \* the last repository statement run directly (SpecRepo)
    affected         \* per id: how many Mark* statements reported a changed row

dbVars == <<image_request, image, answer, clock, lastCall, affected>>

HasRequest(rows, id) == \E r \in rows : r.id = id

RequestRow(rows, id) == CHOOSE r \in rows : r.id = id

InFlight(r) == r.finished_at = NullTime

Terminal(r) == r.finished_at # NullTime

Failed(r) == Terminal(r) /\ r.error_message # NullText

Succeeded(r) == Terminal(r) /\ r.error_message = NullText

\* The row RecordImageRequest inserts for the parameters arg at time now
\* (broadcast_id and screening_id, which nothing reads, are left out).
NewRequestRow(arg, now) ==
    [id |-> arg.image_request_id, twitch_user_id |-> arg.twitch_user_id,
     style |-> arg.style, inputs |-> arg.inputs, prompt |-> arg.prompt,
     created_at |-> now, finished_at |-> NullTime, error_message |-> NullText]

\* RecordImageRequest that replaces the row when the id exists.
RecordImageRequest_Upsert(rows, arg, now) ==
    [ok |-> TRUE,
     rows |-> {r \in rows : r.id # arg.image_request_id} \cup {NewRequestRow(arg, now)}]

\* insert into dynamo.image_request (...) values (..., now()): the new row, or
\* a primary-key violation when the id exists.  Result: [ok, rows].
RecordImageRequest(rows, arg, now) ==
    IF HasRequest(rows, arg.image_request_id)
    THEN [ok |-> FALSE, rows |-> rows]
    ELSE [ok |-> TRUE, rows |-> rows \cup {NewRequestRow(arg, now)}]

\* RecordImageRequestFailure without its `finished_at is null` predicate.
RecordImageRequestFailure_NoPredicate(rows, id, msg, now) ==
    LET hit == {r \in rows : r.id = id}
    IN  [n |-> Cardinality(hit),
         rows |-> (rows \ hit) \cup
                  {[r EXCEPT !.finished_at = now, !.error_message = msg] : r \in hit}]

\* RecordImageRequestFailure that sets error_message and leaves finished_at.
RecordImageRequestFailure_MessageOnly(rows, id, msg, now) ==
    LET hit == {r \in rows : r.id = id /\ r.finished_at = NullTime}
    IN  [n |-> Cardinality(hit),
         rows |-> (rows \ hit) \cup {[r EXCEPT !.error_message = msg] : r \in hit}]

\* update ... set finished_at = now(), error_message = $msg
\*   where id = $id and finished_at is null.  Result: [n, rows], n the
\* number of rows changed.
RecordImageRequestFailure(rows, id, msg, now) ==
    LET hit == {r \in rows : r.id = id /\ r.finished_at = NullTime}
    IN  [n |-> Cardinality(hit),
         rows |-> (rows \ hit) \cup
                  {[r EXCEPT !.finished_at = now, !.error_message = msg] : r \in hit}]

\* RecordImageRequestSuccess without its `finished_at is null` predicate.
RecordImageRequestSuccess_NoPredicate(rows, id, now) ==
    LET hit == {r \in rows : r.id = id}
    IN  [n |-> Cardinality(hit),
         rows |-> (rows \ hit) \cup {[r EXCEPT !.finished_at = now] : r \in hit}]

\* RecordImageRequestSuccess without `id = $id`: it marks every in-flight row.
RecordImageRequestSuccess_AllRows(rows, id, now) ==
    LET hit == {r \in rows : r.finished_at = NullTime}
    IN  [n |-> Cardinality(hit),
         rows |-> (rows \ hit) \cup {[r EXCEPT !.finished_at = now] : r \in hit}]

\* update ... set finished_at = now() where id = $id and finished_at is null.
RecordImageRequestSuccess(rows, id, now) ==
    LET hit == {r \in rows : r.id = id /\ r.finished_at = NullTime}
    IN  [n |-> Cardinality(hit),
         rows |-> (rows \ hit) \cup {[r EXCEPT !.finished_at = now] : r \in hit}]

\* insert into dynamo.image (...): fails on a missing parent (foreign key) or
\* on an (image_request_id, index) collision (unique constraint).
RecordImage(requests, images, id, index, url, color) ==
    IF ~HasRequest(requests, id)
       \/ (\E i \in images : i.image_request_id = id /\ i.index = index)
    THEN [ok |-> FALSE, images |-> images]
    ELSE [ok |-> TRUE,
          images |-> images \cup {[image_request_id |-> id, index |-> index,
                                   url |-> url, color |-> color]}]

\* insert into dynamo.answer (...): fails on a missing parent (foreign key).
RecordAnswer(requests, answers, id, prompt, value) ==
    IF ~HasRequest(requests, id)
    THEN [ok |-> FALSE, answers |-> answers]
    ELSE [ok |-> TRUE,
          answers |-> Append(answers, [image_request_id |-> id,
                                       prompt |-> prompt, value |-> value])]

\* The ghost counter of Mark* statements that reported a changed row.
Bump(aff, id, n) == [aff EXCEPT ![id] = IF @ + n > 2 THEN 2 ELSE @ + n]

NoCall == [op |-> "none", id |-> 0, n |-> 0, ok |-> TRUE]

\* ------------------------------------------------- ledger, events, context

VARIABLES
    ledger,          \* per task: the state of its reservation at the ledger
    onscreenEvents,  \* the messages sent to the onscreen-events exchange
    ctxErr,          \* the handlers' context: "none", or why it is cancelled
    crashed,         \* the process died of an unrecovered panic
    webhook,         \* h.discordWebhookUrl != ""
    formatted,       \* the last call of formatPrompt made directly: inputs, result
    filtered,        \* a call of RemoveBackground made directly: the command's
                     \* exit and standard error, and the result
    generated        \* a call of GenerateText or GenerateImage made directly:
                     \* the responses of the API, and the result

\* The inbound messages, by what the task does with them: unparsable JSON, a
\* request of another type, an image request of each style, and an image
\* request whose inputs make formatting the prompt panic (friend, empty color).
Inputs(subject, color) == [color |-> color, subject |-> subject]

Message_(parses, type, style, inputs) ==
    [parses |-> parses, type |-> type, style |-> style, inputs |-> inputs,
     inputsOk |-> ~FormatPromptPanics(style, inputs)]

ACat == <<"a", " ", "c", "a", "t">>

TheMoon == <<"t", "h", "e", " ", "m", "o", "o", "n">>

Red == <<"r", "e", "d">>

Messages ==
    { Message_(FALSE, "image", "ghost",  Inputs(ACat, << >>)),
      Message_(TRUE,  "other", "ghost",  Inputs(ACat, << >>)),
      Message_(TRUE,  "image", "ghost",  Inputs(ACat, << >>)),
      Message_(TRUE,  "image", "friend", Inputs(TheMoon, Red)),
      Message_(TRUE,  "image", "bad",    Inputs(ACat, << >>)),
      Message_(TRUE,  "image", "friend", Inputs(ACat, << >>)) }

NoMessage == Message_(FALSE, "none", "none", Inputs(<< >>, << >>))

VARIABLES
    chanClosed,      \* the inbound channel generationRequests is closed
    loopDone,        \* main's `done`
    groupErr,        \* errgroup's first error ("nil" when none)
    waited,          \* wg.Wait() has returned
    pc,              \* per task: where the task is
    msg,             \* per task: the message it was spawned for
    calls,           \* per task: the outgoing calls made so far, in order
    retErr,          \* per task: the error being returned ("nil", "panic")
    deferred,        \* per task: the deferred calls registered so far
    tempFiles,       \* temp files on disk: <<task, "png" | "webp">>
    locals,          \* per task: generatedText, backgroundColor, image, imageUrl
    discord          \* per task: the detached Discord post

poolVars == <<chanClosed, loopDone, groupErr, waited>>

taskVars == <<pc, msg, calls, retErr, deferred, tempFiles, locals, discord>>

envVars ==
    <<ledger, onscreenEvents, ctxErr, crashed, webhook, formatted, filtered, generated>>

vars == <<dbVars, envVars, poolVars, taskVars>>

NoLocals ==
    [imageRequestId |-> 0, friendName |-> "", generatedText |-> "",
     backgroundColor |-> << >>, contentType |-> "", imageUrl |-> << >>]

\* formatPrompt has not been called directly.
NotFormatted ==
    [called |-> FALSE, inputs |-> Inputs(<< >>, << >>), panics |-> FALSE,
     prompt |-> << >>, style |-> "none"]

\* RemoveBackground has not been called directly.
NotFiltered ==
    [called |-> FALSE, color |-> << >>, exit0 |-> FALSE, ok |-> FALSE, stderr |-> << >>]

\* A response of the generation API that is never looked at.
NoResponse ==
    [contentType |-> "", count |-> 0, download |-> "ok", downloadStatus |-> 0,
     kind |-> "none", readOk |-> FALSE, status |-> 0, text |-> "", type |-> ""]

\* Neither GenerateText nor GenerateImage has been called directly.
NotGenerated ==
    [called |-> FALSE, fn |-> "none", message |-> << >>, ok |-> FALSE,
     rejected |-> FALSE, response |-> NoResponse]

\* None of the functions has been called directly, outside a handler.
NoDirectCalls ==
    formatted = NotFormatted /\ filtered = NotFiltered /\ generated = NotGenerated

\* The state after main has built the handler, before the first message.
InitDb ==
    /\ image_request = {}
    /\ image = {}
    /\ answer = << >>
    /\ clock = 1
    /\ lastCall = NoCall
    /\ affected = [id \in Uuids |-> 0]

InitHandlersOf(T) ==
    /\ ledger = [h \in T |-> "none"]
    /\ onscreenEvents = << >>
    /\ ctxErr = "none"
    /\ crashed = FALSE
    /\ chanClosed = FALSE
    /\ loopDone = FALSE
    /\ groupErr = "nil"
    /\ waited = FALSE
    /\ pc = [h \in T |-> "idle"]
    /\ msg = [h \in T |-> NoMessage]
    /\ calls = [h \in T |-> << >>]
    /\ retErr = [h \in T |-> "nil"]
    /\ deferred = [h \in T |-> {}]
    /\ tempFiles = {}
    /\ locals = [h \in T |-> NoLocals]
    /\ discord = [h \in T |-> "none"]

InitHandlers == InitHandlersOf(Tasks)

Init == InitDb /\ InitHandlers /\ webhook \in BOOLEAN /\ NoDirectCalls

\* --------------------------------------------- the repository, run directly

\* The queries run one statement at a time against the database, as the
\* query tests do, with any id and in any order.
RepoFrame == UNCHANGED <<envVars, poolVars, taskVars>>

\* The parameters the statement is run with: those of the query test, and
\* a friend request of another user.
RepoParams ==
    { [image_request_id |-> id, twitch_user_id |-> "1005", style |-> "ghost",
       inputs |-> Inputs(ACat, << >>),
       prompt |-> <<"an image of a scary clown, dark background">>] : id \in Uuids }
    \cup
    { [image_request_id |-> id, twitch_user_id |-> "1006", style |-> "friend",
       inputs |-> Inputs(TheMoon, Red),
       prompt |-> FormatPrompt("friend", Inputs(TheMoon, Red))] : id \in Uuids }

RepoRecordImageRequest(arg) ==
    LET res == RecordImageRequest(image_request, arg, clock)
    IN  /\ image_request' = res.rows
        /\ lastCall' = [op |-> "RecordImageRequest", id |-> arg.image_request_id,
                        n |-> IF res.ok THEN 1 ELSE 0, ok |-> res.ok, arg |-> arg]
        /\ UNCHANGED <<image, answer, clock, affected>>
        /\ RepoFrame

RepoRecordImageRequestFailure(id, m) ==
    LET res == RecordImageRequestFailure(image_request, id, m, clock)
    IN  /\ image_request' = res.rows
        /\ lastCall' = [op |-> "RecordImageRequestFailure", id |-> id,
                        n |-> res.n, ok |-> TRUE]
        /\ affected' = Bump(affected, id, res.n)
        /\ UNCHANGED <<image, answer, clock>>
        /\ RepoFrame

RepoRecordImageRequestSuccess(id) ==
    LET res == RecordImageRequestSuccess(image_request, id, clock)
    IN  /\ image_request' = res.rows
        /\ lastCall' = [op |-> "RecordImageRequestSuccess", id |-> id,
                        n |-> res.n, ok |-> TRUE]
        /\ affected' = Bump(affected, id, res.n)
        /\ UNCHANGED <<image, answer, clock>>
        /\ RepoFrame

RepoRecordImage(id) ==
    LET res == RecordImage(image_request, image, id, 0, <<"url", id>>,
                           <<"#", "f", "c", "9", "9", "e", "e">>)
    IN  /\ image' = res.images
        /\ lastCall' = [op |-> "RecordImage", id |-> id,
                        n |-> IF res.ok THEN 1 ELSE 0, ok |-> res.ok]
        /\ UNCHANGED <<image_request, answer, clock, affected>>
        /\ RepoFrame

\* Time passes between two statements.
RepoTick ==
    /\ clock < MaxClock
    /\ clock' = clock + 1
    /\ lastCall' = NoCall
    /\ UNCHANGED <<image_request, image, answer, affected>>
    /\ RepoFrame

NextRepo ==
    \/ \E arg \in RepoParams : RepoRecordImageRequest(arg)
    \/ \E id \in Uuids, m \in ErrorMessages : RepoRecordImageRequestFailure(id, m)
    \/ \E id \in Uuids : RepoRecordImageRequestSuccess(id)
    \/ \E id \in Uuids : RepoRecordImage(id)
    \/ RepoTick

InitRepo == InitDb /\ InitHandlers /\ webhook = FALSE /\ NoDirectCalls

SpecRepo == InitRepo /\ [][NextRepo]_vars

\* ------------------------------------------------------------ the ledger

\* Transaction.Accept: commits the pending debit, or fails and changes nothing.
LedgerAccept(state, ok) == IF ok /\ state = "pending" THEN "accepted" ELSE state

\* Transaction.Finalize: a no-op once Accept has succeeded; otherwise it sends
\* the reject request, which does not reach the ledger on a cancelled context.
LedgerFinalize(state, live) ==
    IF state = "accepted" THEN "accepted"
    ELSE IF live THEN "rejected" ELSE state

\* ----------------------------------------------------- the handler's steps

CtxLive == ctxErr = "none"

\* What a call issued with the handler's context can return: ok or an error;
\* only an error once the context is cancelled.
Outcomes == IF CtxLive THEN {TRUE, FALSE} ELSE {FALSE}

\* What local file and in-memory work can return, whatever the context.
LocalOutcomes == {TRUE, FALSE}

Call(op, ok, arg) == [op |-> op, ok |-> ok, arg |-> arg]

Id(h) == locals[h].imageRequestId

\* The client-facing message of the generation API's 400 response.
ApiMessage == "your request was rejected by the safety system"

\* Message that reports only the sentinel ErrRejected, without the API's message.
Message_SentinelOnly(e) == <<e>>

\* err.Error() of the error a failed step yields; a rejectionError formats as
\* "{ErrRejected}: {message}" (client.go 31-33).
Message(e) ==
    IF e = "image rejected"
    THEN <<"image generation request rejected", ApiMessage>>
    ELSE <<e>>

\* fmt.Errorf("error in text generation: %w", err).Error()
TextGenerationMessage(e) == <<"error in text generation", e>>

\* friendNamePrompt (line 162)
FriendNamePrompt(subject) ==
    <<"Please come up with a name for a friendly mascot character who is ">>
    \o subject
    \o <<". Please answer with a single name, and no additional text.">>

\* Names GenerateText may come up with.
FriendNames == {"Bob", "Zed"}

\* formatDescription that yields the subject whatever the style.
FormatDescription_SubjectAlways(style, inputs) == inputs.subject

\* formatDescription
FormatDescription(style, inputs) ==
    CASE style = "ghost" -> inputs.subject
      [] style = "friend" -> inputs.subject
      [] OTHER -> <<"an image">>

\* formatImageKey whose extension is ".jpg" whatever the content type.
FormatImageKey_AlwaysJpg(id, contentType) == <<id, "/", id, "-0", ".jpg">>

\* formatImageKey: "{id}/{id}-0{ext}"
FormatImageKey(id, contentType) ==
    <<id, "/", id, "-0",
      IF contentType = "image/png" THEN ".png"
      ELSE IF contentType = "image/webp" THEN ".webp" ELSE ".jpg">>

\* storage.Client.Upload's result: "{baseUrl}/{key}"
UploadUrl(key) == <<"https://bucket.endpoint">> \o key

\* ImageType that is ghost whatever the style.
ImageType_AlwaysGhost(style) == "ghost"

\* imageType: ghost unless the style is friend (lines 158-161)
ImageType(style) == IF style = "friend" THEN "friend" ELSE "ghost"

\* The alert event built at lines 270-295; a nil details branch is the empty set.
Event(h) ==
    LET t == ImageType(msg[h].style)
    IN  [type |-> "image", imageType |-> t, viewer |-> h,
         ghost |-> IF t = "ghost"
                   THEN {[imageUrl |-> locals[h].imageUrl,
                          description |-> FormatDescription(msg[h].style, msg[h].inputs)]}
                   ELSE {},
         friend |-> IF t = "friend"
                    THEN {[imageUrl |-> locals[h].imageUrl,
                           description |-> FormatDescription(msg[h].style, msg[h].inputs),
                           name |-> locals[h].generatedText,
                           backgroundColor |-> locals[h].backgroundColor]}
                    ELSE {}]

Log(h, entries) == calls' = [calls EXCEPT ![h] = @ \o entries]

\* The error the task function hands to the errgroup when the handler (or the
\* parse) has yielded e (main.go 198-206): the unmarshal error, and otherwise
\* main's own `err`, which is nil by then; the handler's error is scoped to
\* the if statement that logs it.
TaskError(h, e) == IF ~msg[h].parses THEN e ELSE "nil"

\* The step did not fail: the handler goes on at `label`.
Continue(h, label) ==
    /\ pc' = [pc EXCEPT ![h] = label]
    /\ UNCHANGED <<retErr, ctxErr, groupErr>>

\* The handler yields e and has deferred calls to run before it returns.
Unwind(h, e) ==
    /\ pc' = [pc EXCEPT ![h] = "deferred"]
    /\ retErr' = [retErr EXCEPT ![h] = e]
    /\ UNCHANGED <<ctxErr, groupErr>>

\* The task function returns with the handler's result e; errgroup keeps the
\* first non-nil error it is handed and cancels the context it derived
\* (main.go 187, 196-207).
Exit(h, e) ==
    /\ pc' = [pc EXCEPT ![h] = "returned"]
    /\ retErr' = [retErr EXCEPT ![h] = e]
    /\ IF TaskError(h, e) # "nil" /\ groupErr = "nil"
       THEN /\ groupErr' = TaskError(h, e)
            /\ ctxErr' = IF ctxErr = "none" THEN "group" ELSE ctxErr
       ELSE UNCHANGED <<groupErr, ctxErr>>

\* Left alone by every step of a running handler.
HandlerFrame == UNCHANGED <<clock, lastCall, crashed, webhook, formatted, filtered, generated,
                            chanClosed, loopDone,
                           waited, msg>>

\* RecordFailureAndReturn that returns what recordFailure returned (the
\* database error, or nil) instead of the error of the failed step.
RecordFailureAndReturn_ReturnsDbErr(h, made, passed, e) ==
    \E dbOk \in Outcomes :
        LET res == IF dbOk
                   THEN RecordImageRequestFailure(image_request, Id(h), passed, clock)
                   ELSE [n |-> 0, rows |-> image_request]
        IN  /\ image_request' = res.rows
            /\ affected' = Bump(affected, Id(h), res.n)
            /\ Log(h, made \o <<Call("RecordImageRequestFailure", dbOk, passed)>>)
            /\ Unwind(h, IF dbOk THEN "nil" ELSE "db error")

\* recordFailure(passed) followed by `return e` (lines 149-155 and each
\* failure branch after the insert): MarkFailure is called with the message of
\* `passed`, its result is dropped, and the handler returns e through its
\* deferred calls.  `made` are the calls the failing step made itself.
RecordFailureAndReturn(h, made, passed, e) ==
    \E dbOk \in Outcomes :
        LET res == IF dbOk
                   THEN RecordImageRequestFailure(image_request, Id(h), passed, clock)
                   ELSE [n |-> 0, rows |-> image_request]
        IN  /\ image_request' = res.rows
            /\ affected' = Bump(affected, Id(h), res.n)
            /\ Log(h, made \o <<Call("RecordImageRequestFailure", dbOk, passed)>>)
            /\ Unwind(h, e)

\* ------------------------------------------------------- the worker pool

\* case d, ok := <-generationRequests with ok: wg.Go(...) (main.go 194-207).
\* select takes this case whenever a message is ready, also when ctx.Done()
\* is ready too.
Dispatch(h, m) ==
    /\ ~crashed /\ ~loopDone /\ ~chanClosed
    /\ pc[h] = "idle"
    /\ \A k \in DOMAIN pc : k < h => pc[k] # "idle"
    /\ pc' = [pc EXCEPT ![h] = "spawned"]
    /\ msg' = [msg EXCEPT ![h] = m]
    /\ UNCHANGED <<dbVars, envVars, poolVars, calls, retErr, deferred, tempFiles,
                   locals, discord>>

\* case <-ctx.Done(): done = true (main.go 191-193)
LoopExitCancelled ==
    /\ ~crashed /\ ~loopDone /\ ~CtxLive
    /\ loopDone' = TRUE
    /\ UNCHANGED <<dbVars, envVars, taskVars, chanClosed, groupErr, waited>>

\* the channel is closed: done = true (main.go 208-211)
LoopExitClosed ==
    /\ ~crashed /\ ~loopDone /\ chanClosed
    /\ loopDone' = TRUE
    /\ UNCHANGED <<dbVars, envVars, taskVars, chanClosed, groupErr, waited>>

\* Wait that returns without joining the tasks still running.
Wait_NoJoin ==
    /\ ~crashed /\ loopDone /\ ~waited
    /\ waited' = TRUE
    /\ UNCHANGED <<dbVars, envVars, taskVars, chanClosed, loopDone, groupErr>>

\* wg.Wait() returns once every spawned task has returned (main.go 215).
Wait ==
    /\ ~crashed /\ loopDone /\ ~waited
    /\ \A h \in DOMAIN pc : pc[h] \in {"idle", "returned"}
    /\ waited' = TRUE
    /\ UNCHANGED <<dbVars, envVars, taskVars, chanClosed, loopDone, groupErr>>

\* The consumer closes the inbound channel.
CloseChannel ==
    /\ ~crashed /\ ~chanClosed
    /\ chanClosed' = TRUE
    /\ UNCHANGED <<dbVars, envVars, taskVars, loopDone, groupErr, waited>>

\* The ambient cancellation signal fires (the application context).
Cancel ==
    /\ ~crashed /\ ~waited /\ CtxLive
    /\ ctxErr' = "signal"
    /\ UNCHANGED <<dbVars, poolVars, taskVars, ledger, onscreenEvents, crashed, webhook,
                   formatted, filtered, generated>>

\* TaskStart whose Handle runs handleImageRequest whatever the request's type.
TaskStart_NoSwitch(h) ==
    /\ ~crashed /\ pc[h] = "spawned"
    /\ IF ~msg[h].parses
       THEN Exit(h, "unmarshal error")
       ELSE Continue(h, "auth")
    /\ HandlerFrame
    /\ UNCHANGED <<image_request, image, answer, affected, ledger, onscreenEvents,
                   calls, deferred, tempFiles, locals, discord>>

\* The task body up to h.Handle's switch (main.go 196-203, producer.go 87-93).
TaskStart(h) ==
    /\ ~crashed /\ pc[h] = "spawned"
    /\ IF ~msg[h].parses
       THEN Exit(h, "unmarshal error")
       ELSE IF msg[h].type # "image"
            THEN Exit(h, "nil")
            ELSE Continue(h, "auth")
    /\ HandlerFrame
    /\ UNCHANGED <<image_request, image, answer, affected, ledger, onscreenEvents,
                   calls, deferred, tempFiles, locals, discord>>

\* ------------------------------------------------------ handleImageRequest

\* authServiceClient.RequestServiceToken (lines 98-108)
HandleAuth(h) ==
    /\ ~crashed /\ pc[h] = "auth"
    /\ \E ok \in Outcomes :
        /\ Log(h, <<Call("RequestServiceToken", ok, << >>)>>)
        /\ IF ok THEN Continue(h, "reserve")
                 ELSE Exit(h, "auth error")
    /\ HandlerFrame
    /\ UNCHANGED <<image_request, image, answer, affected, ledger, onscreenEvents,
                   deferred, tempFiles, locals, discord>>

\* HandleReserve without the `defer transaction.Finalize(ctx)`.
HandleReserve_NoDefer(h) ==
    /\ ~crashed /\ pc[h] = "reserve"
    /\ locals' = [locals EXCEPT ![h].imageRequestId = h]
    /\ \E ok \in Outcomes :
        /\ Log(h, <<Call("RequestAlertRedemption", ok, << >>)>>)
        /\ IF ok
           THEN /\ ledger' = [ledger EXCEPT ![h] = "pending"]
                /\ Continue(h, "insert")
           ELSE /\ UNCHANGED ledger
                /\ Exit(h, "ledger error")
    /\ HandlerFrame
    /\ UNCHANGED <<image_request, image, answer, affected, onscreenEvents,
                   deferred, tempFiles, discord>>

\* HandleReserve that goes on to the insert when the reservation failed.
HandleReserve_NoReturn(h) ==
    /\ ~crashed /\ pc[h] = "reserve"
    /\ locals' = [locals EXCEPT ![h].imageRequestId = h]
    /\ \E ok \in Outcomes :
        /\ Log(h, <<Call("RequestAlertRedemption", ok, << >>)>>)
        /\ IF ok
           THEN /\ ledger' = [ledger EXCEPT ![h] = "pending"]
                /\ deferred' = [deferred EXCEPT ![h] = @ \cup {"Finalize"}]
           ELSE UNCHANGED <<ledger, deferred>>
        /\ Continue(h, "insert")
    /\ HandlerFrame
    /\ UNCHANGED <<image_request, image, answer, affected, onscreenEvents,
                   tempFiles, discord>>

\* uuid.New(), ledgerClient.RequestAlertRedemption and, once it has returned
\* a transaction, defer transaction.Finalize(ctx) (lines 112-118)
HandleReserve(h) ==
    /\ ~crashed /\ pc[h] = "reserve"
    /\ locals' = [locals EXCEPT ![h].imageRequestId = h]
    /\ \E ok \in Outcomes :
        /\ Log(h, <<Call("RequestAlertRedemption", ok, << >>)>>)
        /\ IF ok
           THEN /\ ledger' = [ledger EXCEPT ![h] = "pending"]
                /\ deferred' = [deferred EXCEPT ![h] = @ \cup {"Finalize"}]
                /\ Continue(h, "insert")
           ELSE /\ UNCHANGED <<ledger, deferred>>
                /\ Exit(h, "ledger error")
    /\ HandlerFrame
    /\ UNCHANGED <<image_request, image, answer, affected, onscreenEvents,
                   tempFiles, discord>>

\* queries.RecordImageRequestParams as built at lines 132-146
RequestParams(h) ==
    [image_request_id |-> Id(h), twitch_user_id |-> h, style |-> msg[h].style,
     inputs |-> msg[h].inputs,
     prompt |-> FormatPrompt(msg[h].style, msg[h].inputs)]

\* formatDescription / formatPrompt, which panic on inputs they cannot index,
\* then q.RecordImageRequest (lines 132-148)
HandleInsert(h) ==
    /\ ~crashed /\ pc[h] = "insert"
    /\ IF ~msg[h].inputsOk
       THEN /\ Unwind(h, "panic")
            /\ UNCHANGED <<image_request, calls>>
       ELSE \E ok \in Outcomes :
            LET res == RecordImageRequest(image_request, RequestParams(h), clock)
                good == ok /\ res.ok
            IN  /\ image_request' = IF ok THEN res.rows ELSE image_request
                /\ Log(h, <<Call("RecordImageRequest", good, << >>)>>)
                /\ IF good
                   THEN /\ Continue(h, IF msg[h].style = "friend" THEN "text" ELSE "image")
                   ELSE Unwind(h, "insert error")
    /\ HandlerFrame
    /\ UNCHANGED <<image, answer, affected, ledger, onscreenEvents, deferred,
                   tempFiles, locals, discord>>

\* friend: generationClient.GenerateText (lines 162-167)
HandleText(h) ==
    /\ ~crashed /\ pc[h] = "text"
    /\ \E ok \in Outcomes, name \in FriendNames :
        IF ok
        THEN /\ locals' = [locals EXCEPT ![h].friendName = name]
             /\ Log(h, <<Call("GenerateText", TRUE, <<name>>)>>)
             /\ Continue(h, "answer")
             /\ UNCHANGED <<image_request, affected>>
        ELSE /\ RecordFailureAndReturn(h, <<Call("GenerateText", FALSE, << >>)>>,
                                       TextGenerationMessage("text error"), "text error")
             /\ UNCHANGED locals
    /\ HandlerFrame
    /\ UNCHANGED <<image, answer, ledger, onscreenEvents, deferred, tempFiles, discord>>

\* HandleAnswer that keeps the name but inserts no Answer row.
HandleAnswer_NoInsert(h) ==
    /\ ~crashed /\ pc[h] = "answer"
    /\ locals' = [locals EXCEPT ![h].generatedText = locals[h].friendName]
    /\ Log(h, <<Call("RecordAnswer", TRUE, << >>)>>)
    /\ Continue(h, "image")
    /\ HandlerFrame
    /\ UNCHANGED <<image_request, affected, answer, image, ledger, onscreenEvents,
                   deferred, tempFiles, discord>>

\* friend: q.RecordAnswer, then generatedText = friendName (lines 168-176)
HandleAnswer(h) ==
    /\ ~crashed /\ pc[h] = "answer"
    /\ \E ok \in Outcomes :
        LET res == RecordAnswer(image_request, answer, Id(h),
                                FriendNamePrompt(msg[h].inputs.subject),
                                locals[h].friendName)
            good == ok /\ res.ok
        IN  IF good
            THEN /\ answer' = res.answers
                 /\ locals' = [locals EXCEPT ![h].generatedText = locals[h].friendName]
                 /\ Log(h, <<Call("RecordAnswer", TRUE, << >>)>>)
                 /\ Continue(h, "image")
                 /\ UNCHANGED <<image_request, affected>>
            ELSE /\ RecordFailureAndReturn(h, <<Call("RecordAnswer", FALSE, << >>)>>,
                                           Message("answer error"), "answer error")
                 /\ UNCHANGED <<answer, locals>>
    /\ HandlerFrame
    /\ UNCHANGED <<image, ledger, onscreenEvents, deferred, tempFiles, discord>>

\* generationClient.GenerateImage; backgroundColor := "#000000" (lines 180-189)
HandleImage(h) ==
    /\ ~crashed /\ pc[h] = "image"
    /\ \E r \in (IF CtxLive THEN {"ok", "image rejected", "image error"}
                            ELSE {"image error"}) :
        IF r = "ok"
        THEN /\ locals' = [locals EXCEPT ![h].contentType = "image/png",
                                         ![h].backgroundColor = Black]
             /\ Log(h, <<Call("GenerateImage", TRUE, RequestParams(h).prompt)>>)
             /\ Continue(h, IF msg[h].style = "friend" THEN "tempfile" ELSE "jpeg")
             /\ UNCHANGED <<image_request, affected>>
        ELSE /\ RecordFailureAndReturn(h,
                    <<Call("GenerateImage", FALSE, RequestParams(h).prompt)>>,
                    Message(r), r)
             /\ UNCHANGED locals
    /\ HandlerFrame
    /\ UNCHANGED <<image, answer, ledger, onscreenEvents, deferred, tempFiles, discord>>

\* HandleTempFile without the `defer os.Remove(outfileName)`.
HandleTempFile_NoDeferOutfile(h) ==
    /\ ~crashed /\ pc[h] = "tempfile"
    /\ \E r \in {"ok", "create error", "write error"} :
        LET made == IF r = "create error"
                    THEN <<Call("CreateTemp", FALSE, << >>)>>
                    ELSE <<Call("CreateTemp", TRUE, << >>),
                           Call("Write", r = "ok", << >>)>>
        IN  /\ tempFiles' = IF r = "create error" THEN tempFiles
                            ELSE tempFiles \cup {<<h, "png">>}
            /\ deferred' = [deferred EXCEPT ![h] =
                              IF r = "create error" THEN @ ELSE @ \cup {"RemoveInfile"}]
            /\ IF r = "ok"
               THEN /\ Log(h, made)
                    /\ Continue(h, "removebg")
                    /\ UNCHANGED <<image_request, affected>>
               ELSE RecordFailureAndReturn(h, made, Message(r), r)
    /\ HandlerFrame
    /\ UNCHANGED <<image, answer, ledger, onscreenEvents, locals, discord>>

\* friend: os.CreateTemp, the deferred Close and Remove of the input file, the
\* write of the PNG, and the deferred Remove of the output file (lines 193-211)
HandleTempFile(h) ==
    /\ ~crashed /\ pc[h] = "tempfile"
    /\ \E r \in {"ok", "create error", "write error"} :
        LET made == IF r = "create error"
                    THEN <<Call("CreateTemp", FALSE, << >>)>>
                    ELSE <<Call("CreateTemp", TRUE, << >>),
                           Call("Write", r = "ok", << >>)>>
        IN  /\ tempFiles' = IF r = "create error" THEN tempFiles
                            ELSE tempFiles \cup {<<h, "png">>}
            /\ deferred' = [deferred EXCEPT ![h] =
                              CASE r = "create error" -> @
                                [] r = "write error" -> @ \cup {"RemoveInfile"}
                                [] OTHER -> @ \cup {"RemoveInfile", "RemoveOutfile"}]
            /\ IF r = "ok"
               THEN /\ Log(h, made)
                    /\ Continue(h, "removebg")
                    /\ UNCHANGED <<image_request, affected>>
               ELSE RecordFailureAndReturn(h, made, Message(r), r)
    /\ HandlerFrame
    /\ UNCHANGED <<image, answer, ledger, onscreenEvents, locals, discord>>

\* friend: filterRunner.RemoveBackground, backgroundColor = color, and
\* os.ReadFile of the WEBP (lines 215-229).  A failed run may leave an output
\* file behind.
HandleRemoveBackground(h) ==
    /\ ~crashed /\ pc[h] = "removebg"
    /\ \E exit0 \in Outcomes, stderr \in StderrSamples, wrote \in BOOLEAN,
          read \in LocalOutcomes :
        LET res == RemoveBackground(exit0, stderr)
            ok == res.ok
        IN
        /\ tempFiles' = IF exit0 \/ wrote THEN tempFiles \cup {<<h, "webp">>}
                        ELSE tempFiles
        /\ IF ok /\ read
           THEN /\ locals' = [locals EXCEPT ![h].backgroundColor = res.color,
                                            ![h].contentType = "image/webp"]
                /\ Log(h, <<Call("RemoveBackground", TRUE, res.color),
                            Call("ReadFile", TRUE, << >>)>>)
                /\ Continue(h, "store")
                /\ UNCHANGED <<image_request, affected>>
           ELSE IF ok
           THEN /\ locals' = [locals EXCEPT ![h].backgroundColor = res.color]
                /\ RecordFailureAndReturn(h,
                       <<Call("RemoveBackground", TRUE, res.color),
                         Call("ReadFile", FALSE, << >>)>>,
                       Message("read error"), "read error")
           ELSE /\ UNCHANGED locals
                /\ RecordFailureAndReturn(h, <<Call("RemoveBackground", FALSE, << >>)>>,
                                          Message("filter error"), "filter error")
    /\ HandlerFrame
    /\ UNCHANGED <<image, answer, ledger, onscreenEvents, deferred, discord>>

\* otherwise: png.Decode and jpeg.Encode in memory (lines 233-252)
HandleJpeg(h) ==
    /\ ~crashed /\ pc[h] = "jpeg"
    /\ \E r \in {"ok", "decode error", "encode error"} :
        LET made == IF r = "decode error"
                    THEN <<Call("Decode", FALSE, << >>)>>
                    ELSE <<Call("Decode", TRUE, << >>),
                           Call("Encode", r = "ok", << >>)>>
        IN  IF r = "ok"
            THEN /\ locals' = [locals EXCEPT ![h].contentType = "image/jpeg"]
                 /\ Log(h, made)
                 /\ Continue(h, "store")
                 /\ UNCHANGED <<image_request, affected>>
            ELSE /\ RecordFailureAndReturn(h, made, Message(r), r)
                 /\ UNCHANGED locals
    /\ HandlerFrame
    /\ UNCHANGED <<image, answer, ledger, onscreenEvents, deferred, tempFiles, discord>>

\* HandleStoreImage that inserts the Image row before it uploads the image.
HandleStoreImage_InsertFirst(h) ==
    /\ ~crashed /\ pc[h] = "store"
    /\ \E up \in Outcomes, db \in Outcomes :
        LET key == FormatImageKey(Id(h), locals[h].contentType)
            url == UploadUrl(key)
            res == RecordImage(image_request, image, Id(h), 0, url,
                               locals[h].backgroundColor)
            good == up /\ db /\ res.ok
        IN  IF good
            THEN /\ image' = res.images
                 /\ locals' = [locals EXCEPT ![h].imageUrl = url]
                 /\ Log(h, <<Call("RecordImage", TRUE, << >>), Call("Upload", TRUE, key)>>)
                 /\ Continue(h, "success")
                 /\ UNCHANGED <<image_request, affected>>
            ELSE /\ RecordFailureAndReturn(h, <<Call("RecordImage", FALSE, << >>)>>,
                        Message("record image error"), "record image error")
                 /\ UNCHANGED <<image, locals>>
    /\ HandlerFrame
    /\ UNCHANGED <<answer, ledger, onscreenEvents, deferred, tempFiles, discord>>

\* storeImage: storageClient.Upload under formatImageKey, then q.RecordImage
\* with index 0 (lines 257-261 and 382-400)
HandleStoreImage(h) ==
    /\ ~crashed /\ pc[h] = "store"
    /\ \E up \in Outcomes, db \in Outcomes :
        LET key == FormatImageKey(Id(h), locals[h].contentType)
            url == UploadUrl(key)
            res == RecordImage(image_request, image, Id(h), 0, url,
                               locals[h].backgroundColor)
            good == up /\ db /\ res.ok
        IN  IF good
            THEN /\ image' = res.images
                 /\ locals' = [locals EXCEPT ![h].imageUrl = url]
                 /\ Log(h, <<Call("Upload", TRUE, key), Call("RecordImage", TRUE, << >>)>>)
                 /\ Continue(h, "success")
                 /\ UNCHANGED <<image_request, affected>>
            ELSE IF up
            THEN /\ RecordFailureAndReturn(h,
                        <<Call("Upload", TRUE, key), Call("RecordImage", FALSE, << >>)>>,
                        Message("record image error"), "record image error")
                 /\ UNCHANGED <<image, locals>>
            ELSE /\ RecordFailureAndReturn(h, <<Call("Upload", FALSE, key)>>,
                        Message("upload error"), "upload error")
                 /\ UNCHANGED <<image, locals>>
    /\ HandlerFrame
    /\ UNCHANGED <<answer, ledger, onscreenEvents, deferred, tempFiles, discord>>

\* HandleSuccess that drops the error of RecordImageRequestSuccess and goes on.
HandleSuccess_IgnoreError(h) ==
    /\ ~crashed /\ pc[h] = "success"
    /\ \E ok \in Outcomes :
        LET res == IF ok
                   THEN RecordImageRequestSuccess(image_request, Id(h), clock)
                   ELSE [n |-> 0, rows |-> image_request]
        IN  /\ image_request' = res.rows
            /\ affected' = Bump(affected, Id(h), res.n)
            /\ Log(h, <<Call("RecordImageRequestSuccess", ok, << >>)>>)
            /\ Continue(h, "publish")
    /\ HandlerFrame
    /\ UNCHANGED <<image, answer, ledger, onscreenEvents, deferred, tempFiles,
                   locals, discord>>

\* HandleSuccess that routes the error of RecordImageRequestSuccess through
\* recordFailure, like the other steps.
HandleSuccess_RecordsFailure(h) ==
    /\ ~crashed /\ pc[h] = "success"
    /\ \E ok \in Outcomes :
        IF ok
        THEN LET res == RecordImageRequestSuccess(image_request, Id(h), clock)
             IN  /\ image_request' = res.rows
                 /\ affected' = Bump(affected, Id(h), res.n)
                 /\ Log(h, <<Call("RecordImageRequestSuccess", TRUE, << >>)>>)
                 /\ Continue(h, "publish")
        ELSE RecordFailureAndReturn(h, <<Call("RecordImageRequestSuccess", FALSE, << >>)>>,
                                    Message("success error"), "success error")
    /\ HandlerFrame
    /\ UNCHANGED <<image, answer, ledger, onscreenEvents, deferred, tempFiles,
                   locals, discord>>

\* q.RecordImageRequestSuccess; its error is returned as it is (lines 265-267)
HandleSuccess(h) ==
    /\ ~crashed /\ pc[h] = "success"
    /\ \E ok \in Outcomes :
        LET res == IF ok
                   THEN RecordImageRequestSuccess(image_request, Id(h), clock)
                   ELSE [n |-> 0, rows |-> image_request]
        IN  /\ image_request' = res.rows
            /\ affected' = Bump(affected, Id(h), res.n)
            /\ Log(h, <<Call("RecordImageRequestSuccess", ok, << >>)>>)
            /\ IF ok THEN Continue(h, "publish")
                     ELSE Unwind(h, "success error")
    /\ HandlerFrame
    /\ UNCHANGED <<image, answer, ledger, onscreenEvents, deferred, tempFiles,
                   locals, discord>>

\* HandlePublish whose failure branch records the failure but does not return.
HandlePublish_NoReturn(h) ==
    /\ ~crashed /\ pc[h] = "publish"
    /\ \E ok \in Outcomes, dbOk \in Outcomes :
        IF ok
        THEN /\ onscreenEvents' = Append(onscreenEvents, Event(h))
             /\ Log(h, <<Call("Send", TRUE, << >>)>>)
             /\ Continue(h, "accept")
             /\ UNCHANGED <<image_request, affected>>
        ELSE LET res == IF dbOk
                        THEN RecordImageRequestFailure(image_request, Id(h),
                                                       Message("send error"), clock)
                        ELSE [n |-> 0, rows |-> image_request]
             IN  /\ image_request' = res.rows
                 /\ affected' = Bump(affected, Id(h), res.n)
                 /\ Log(h, <<Call("Send", FALSE, << >>),
                             Call("RecordImageRequestFailure", dbOk, Message("send error"))>>)
                 /\ Continue(h, "accept")
                 /\ UNCHANGED onscreenEvents
    /\ HandlerFrame
    /\ UNCHANGED <<image, answer, ledger, deferred, tempFiles, locals, discord>>

\* the event is built and h.produceOnscreenEvent sends it (lines 270-299, 12-25)
HandlePublish(h) ==
    /\ ~crashed /\ pc[h] = "publish"
    /\ \E ok \in Outcomes :
        IF ok
        THEN /\ onscreenEvents' = Append(onscreenEvents, Event(h))
             /\ Log(h, <<Call("Send", TRUE, << >>)>>)
             /\ Continue(h, "accept")
             /\ UNCHANGED <<image_request, affected>>
        ELSE /\ RecordFailureAndReturn(h, <<Call("Send", FALSE, << >>)>>,
                                       Message("send error"), "send error")
             /\ UNCHANGED onscreenEvents
    /\ HandlerFrame
    /\ UNCHANGED <<image, answer, ledger, deferred, tempFiles, locals, discord>>

\* HandleAccept that drops the error of transaction.Accept and returns nil.
HandleAccept_IgnoreError(h) ==
    /\ ~crashed /\ pc[h] = "accept"
    /\ \E ok \in Outcomes :
        /\ ledger' = [ledger EXCEPT ![h] = LedgerAccept(@, ok)]
        /\ Log(h, <<Call("Accept", ok, << >>)>>)
        /\ discord' = [discord EXCEPT ![h] =
                         IF webhook /\ msg[h].style = "ghost" THEN "spawned" ELSE @]
        /\ Unwind(h, "nil")
    /\ HandlerFrame
    /\ UNCHANGED <<image_request, image, answer, affected, onscreenEvents, deferred,
                   tempFiles, locals>>

\* HandleAccept that posts to Discord whatever the style.
HandleAccept_AnyStyle(h) ==
    /\ ~crashed /\ pc[h] = "accept"
    /\ \E ok \in Outcomes :
        /\ ledger' = [ledger EXCEPT ![h] = LedgerAccept(@, ok)]
        /\ Log(h, <<Call("Accept", ok, << >>)>>)
        /\ IF ok
           THEN /\ discord' = [discord EXCEPT ![h] = IF webhook THEN "spawned" ELSE @]
                /\ Unwind(h, "nil")
           ELSE /\ UNCHANGED discord
                /\ Unwind(h, "accept error")
    /\ HandlerFrame
    /\ UNCHANGED <<image_request, image, answer, affected, onscreenEvents, deferred,
                   tempFiles, locals>>

\* transaction.Accept, then the detached Discord post for a ghost when a
\* webhook is configured, and return nil (lines 305-321)
HandleAccept(h) ==
    /\ ~crashed /\ pc[h] = "accept"
    /\ \E ok \in Outcomes :
        /\ ledger' = [ledger EXCEPT ![h] = LedgerAccept(@, ok)]
        /\ Log(h, <<Call("Accept", ok, << >>)>>)
        /\ IF ok
           THEN /\ discord' = [discord EXCEPT ![h] =
                                 IF webhook /\ msg[h].style = "ghost"
                                 THEN "spawned" ELSE @]
                /\ Unwind(h, "nil")
           ELSE /\ UNCHANGED discord
                /\ Unwind(h, "accept error")
    /\ HandlerFrame
    /\ UNCHANGED <<image_request, image, answer, affected, onscreenEvents, deferred,
                   tempFiles, locals>>

\* discord.PostGhostAlert in its own goroutine; an error is only logged
\* (lines 313-318)
DiscordPost(h) ==
    /\ ~crashed /\ ~waited /\ discord[h] = "spawned"
    /\ \E ok \in LocalOutcomes :
        discord' = [discord EXCEPT ![h] = IF ok THEN "posted" ELSE "failed"]
    /\ UNCHANGED <<dbVars, envVars, poolVars, pc, msg, calls, retErr, deferred,
                   tempFiles, locals>>

\* The handler leaves, by return or by panic: its deferred calls run, last
\* registered first: os.Remove of the output file, os.Remove and Close of the
\* input file, transaction.Finalize(ctx) (lines 118, 201-202, 211).  Then the
\* task function returns, or the panic ends the process.
RunDeferred(h) ==
    /\ ~crashed /\ pc[h] = "deferred"
    /\ tempFiles' = tempFiles \
          ((IF "RemoveInfile" \in deferred[h] THEN {<<h, "png">>} ELSE {}) \cup
           (IF "RemoveOutfile" \in deferred[h] THEN {<<h, "webp">>} ELSE {}))
    /\ IF "Finalize" \in deferred[h]
       THEN /\ ledger' = [ledger EXCEPT ![h] = LedgerFinalize(@, CtxLive)]
            /\ Log(h, <<Call("Finalize", ledger[h] = "accepted" \/ CtxLive, << >>)>>)
       ELSE UNCHANGED <<ledger, calls>>
    /\ deferred' = [deferred EXCEPT ![h] = {}]
    /\ IF retErr[h] = "panic"
       THEN /\ crashed' = TRUE
            /\ pc' = [pc EXCEPT ![h] = "panicked"]
            /\ UNCHANGED <<retErr, ctxErr, groupErr>>
       ELSE /\ crashed' = FALSE
            /\ Exit(h, retErr[h])
    /\ UNCHANGED <<dbVars, onscreenEvents, webhook, formatted, filtered, generated,
                   chanClosed, loopDone, waited,
                   msg, locals, discord>>

Next ==
    \/ \E h \in DOMAIN pc, m \in Messages : Dispatch(h, m)
    \/ LoopExitCancelled
    \/ LoopExitClosed
    \/ Wait
    \/ CloseChannel
    \/ Cancel
    \/ \E h \in DOMAIN pc : TaskStart(h)
    \/ \E h \in DOMAIN pc : HandleAuth(h)
    \/ \E h \in DOMAIN pc : HandleReserve(h)
    \/ \E h \in DOMAIN pc : HandleInsert(h)
    \/ \E h \in DOMAIN pc : HandleText(h)
    \/ \E h \in DOMAIN pc : HandleAnswer(h)
    \/ \E h \in DOMAIN pc : HandleImage(h)
    \/ \E h \in DOMAIN pc : HandleTempFile(h)
    \/ \E h \in DOMAIN pc : HandleRemoveBackground(h)
    \/ \E h \in DOMAIN pc : HandleJpeg(h)
    \/ \E h \in DOMAIN pc : HandleStoreImage(h)
    \/ \E h \in DOMAIN pc : HandleSuccess(h)
    \/ \E h \in DOMAIN pc : HandlePublish(h)
    \/ \E h \in DOMAIN pc : HandleAccept(h)
    \/ \E h \in DOMAIN pc : DiscordPost(h)
    \/ \E h \in DOMAIN pc : RunDeferred(h)

Spec == Init /\ [][Next]_vars

\* One step of the goroutine that runs task h.
HandlerStep(h) ==
    \/ TaskStart(h) \/ HandleAuth(h) \/ HandleReserve(h) \/ HandleInsert(h)
    \/ HandleText(h) \/ HandleAnswer(h) \/ HandleImage(h) \/ HandleTempFile(h)
    \/ HandleRemoveBackground(h) \/ HandleJpeg(h) \/ HandleStoreImage(h)
    \/ HandleSuccess(h) \/ HandlePublish(h) \/ HandleAccept(h) \/ RunDeferred(h)

\* The Go scheduler runs every runnable goroutine, and every call a handler
\* makes returns: a task that can take a step eventually takes it, and so
\* does main once wg.Wait() can return.
Fairness ==
    /\ \A h \in Tasks : WF_vars(HandlerStep(h))
    /\ WF_vars(Wait)

SpecLive == Init /\ [][Next]_vars /\ Fairness

\* ------------------------------------------- formatPrompt, called directly

\* Longest subject and longest color formatPrompt is called with.
MaxSubjectLen == 4

MaxColorLen == 1

\* The sequences over S of length at most n.
BoundedSeq(S, n) == UNION {[1 .. k -> S] : k \in 0 .. n}

AnOstrich == <<"a", "n", " ", "o", "s", "t", "r", "i", "c", "h">>

Orange == <<"o", "r", "a", "n", "g", "e">>

\* Subjects with and without each leading article, and the subjects of the
\* messages above.
Subjects ==
    BoundedSeq({"a", "n", "t", "h", "e", " "}, MaxSubjectLen)
    \cup {AnOstrich, ACat, TheMoon}

\* Colors beginning with a vowel or not, and the empty color.
Colors == BoundedSeq({"a", "o", "b"}, MaxColorLen) \cup {Orange, Red}

\* The arguments of a call of formatPrompt that has not been made yet.
FormatArgs ==
    {[called |-> FALSE, inputs |-> Inputs(subject, color), panics |-> FALSE,
      prompt |-> << >>, style |-> style] :
        style \in {"ghost", "friend", "bad"}, subject \in Subjects, color \in Colors}

\* formatPrompt(style, inputs): it returns the prompt, or panics on color[0].
FormatCall ==
    /\ ~formatted.called
    /\ formatted.style # "none"
    /\ formatted' =
          [formatted EXCEPT
             !.called = TRUE,
             !.panics = FormatPromptPanics(formatted.style, formatted.inputs),
             !.prompt = IF FormatPromptPanics(formatted.style, formatted.inputs)
                        THEN << >>
                        ELSE FormatPrompt(formatted.style, formatted.inputs)]
    /\ UNCHANGED <<dbVars, poolVars, taskVars, ledger, onscreenEvents, ctxErr,
                   crashed, webhook, filtered, generated>>

NextFormat == FormatCall

InitFormat ==
    /\ InitDb /\ InitHandlers /\ webhook = FALSE
    /\ formatted \in FormatArgs
    /\ filtered = NotFiltered /\ generated = NotGenerated

SpecFormat == InitFormat /\ [][NextFormat]_vars

\* --------------------------------------- RemoveBackground, called directly

\* Most lines the imf command writes to standard error.
MaxLines == 2

\* Lines of standard error: colors, texts that are no color, and near misses.
StderrLines ==
    { <<"#", "a", "b", "c", "d", "e", "f">>,
      <<"#", "f", "f", "e", "e", "0", "1">>,
      <<"#", "F", "F", "E", "E", "0", "1">>,
      <<"#", "a", "b", "c", "d", "e", "f", "g">>,
      <<"#", "a", "b", "c">>,
      <<" ", "#", "a", "b", "c", "d", "e", "f">>,
      <<"s", "o", "m", "e", "t", "h", "i", "n", "g", " ", "e", "l", "s", "e">>,
      <<"h", "e", "l", "l", "o", " ", "w", "o", "r", "l", "d">> }

\* The lines, each ended by a newline.
RECURSIVE JoinLines(_)
JoinLines(ls) ==
    IF ls = << >> THEN << >> ELSE Head(ls) \o <<"\n">> \o JoinLines(Tail(ls))

\* Standard-error texts of up to MaxLines lines, the last line with or
\* without its newline.
StderrTexts ==
    {JoinLines(ls) : ls \in BoundedSeq(StderrLines, MaxLines)}
    \cup {SubSeq(JoinLines(ls), 1, Len(JoinLines(ls)) - 1) :
             ls \in BoundedSeq(StderrLines, MaxLines) \ {<< >>}}

\* The exit and the standard error of a run of the command not yet made.
FilterArgs ==
    {[called |-> FALSE, color |-> << >>, exit0 |-> exit0, ok |-> FALSE,
      stderr |-> stderr] : exit0 \in BOOLEAN, stderr \in StderrTexts}

\* cliRunner.RemoveBackground(ctx, infile, outfile)
FilterCall ==
    /\ ~filtered.called
    /\ filtered' =
          [filtered EXCEPT
             !.called = TRUE,
             !.color = RemoveBackground(filtered.exit0, filtered.stderr).color,
             !.ok = RemoveBackground(filtered.exit0, filtered.stderr).ok]
    /\ UNCHANGED <<dbVars, poolVars, taskVars, ledger, onscreenEvents, ctxErr,
                   crashed, webhook, formatted, generated>>

NextFilter == FilterCall

InitFilter ==
    /\ InitDb /\ InitHandlers /\ webhook = FALSE
    /\ filtered \in FilterArgs
    /\ formatted = NotFormatted /\ generated = NotGenerated

SpecFilter == InitFilter /\ [][NextFilter]_vars

\* ------------------------- GenerateText and GenerateImage, called directly

\* Most results (choices, images) in a response of the API.
MaxResults == 2

\* What the API and the image download can answer: the API call succeeds,
\* fails with an APIError of some status and type, or fails otherwise;
\* the response carries count results; the download of the image fails, or
\* answers with a status and a content type, and its body can be read or not.
Responses ==
    [contentType : {"image/png", "image/jpeg"},
     count : 0 .. MaxResults,
     download : {"ok", "transport error"},
     downloadStatus : {200, 404},
     kind : {"ok", "api error", "transport error"},
     readOk : BOOLEAN,
     status : {400, 401, 500},
     text : {"", "Bob"},
     type : {"invalid_request_error", "server_error"}]

\* The result of a call that failed with the error message m.
Failure(rejected, m) == [ok |-> FALSE, rejected |-> rejected, message |-> m]

Success == [ok |-> TRUE, rejected |-> FALSE, message |-> << >>]

\* The error branch shared by both functions (client.go 67-75, 102-110):
\* a rejectionError for an APIError with status 400 and type
\* invalid_request_error, and otherwise the error as it came.
ApiFailure(r) ==
    IF r.kind = "api error" /\ r.status = 400 /\ r.type = "invalid_request_error"
    THEN Failure(TRUE, <<"image generation request rejected", ApiMessage>>)
    ELSE Failure(FALSE, <<r.kind>>)

\* client.GenerateText
GenerateText(r) ==
    IF r.kind # "ok" THEN ApiFailure(r)
    ELSE IF r.count # 1 THEN Failure(FALSE, <<"expected 1 or more result choices from OpenAI">>)
    ELSE IF r.text = "" THEN Failure(FALSE, <<"go no text from OpenAI response choice">>)
    ELSE Success

\* GenerateImage that takes every APIError with status 400 for a rejection.
GenerateImage_Any400(r) ==
    IF r.kind = "api error" /\ r.status = 400
    THEN Failure(TRUE, <<"image generation request rejected", ApiMessage>>)
    ELSE IF r.kind = "ok" /\ r.count = 1 /\ r.download = "ok" /\ r.downloadStatus = 200
            /\ r.contentType = "image/png" /\ r.readOk
    THEN Success
    ELSE Failure(FALSE, <<"error">>)

\* client.GenerateImage
GenerateImage(r) ==
    IF r.kind # "ok" THEN ApiFailure(r)
    ELSE IF r.count # 1 THEN Failure(FALSE, <<"expected 1 result image from OpenAI">>)
    ELSE IF r.download # "ok" THEN Failure(FALSE, <<r.download>>)
    ELSE IF r.downloadStatus # 200
    THEN Failure(FALSE, <<"got status from request for OpenAI-hosted image">>)
    ELSE IF r.contentType # "image/png"
    THEN Failure(FALSE, <<"got unexpected content-type for OpenAI-hosted image">>)
    ELSE IF ~r.readOk
    THEN Failure(FALSE, <<"failed to read PNG image data from OpenAI response body">>)
    ELSE Success

\* The responses a call not yet made will meet.
GenerateArgs ==
    {[called |-> FALSE, fn |-> fn, message |-> << >>, ok |-> FALSE,
      rejected |-> FALSE, response |-> r] : fn \in {"text", "image"}, r \in Responses}

\* One call of GenerateText or GenerateImage.
GenerateCall ==
    /\ ~generated.called
    /\ generated.fn # "none"
    /\ LET res == IF generated.fn = "text" THEN GenerateText(generated.response)
                  ELSE GenerateImage(generated.response)
       IN  generated' = [generated EXCEPT !.called = TRUE, !.ok = res.ok,
                                          !.rejected = res.rejected,
                                          !.message = res.message]
    /\ UNCHANGED <<dbVars, poolVars, taskVars, ledger, onscreenEvents, ctxErr,
                   crashed, webhook, formatted, filtered>>

NextGenerate == GenerateCall

InitGenerate ==
    /\ InitDb /\ InitHandlers /\ webhook = FALSE
    /\ generated \in GenerateArgs
    /\ formatted = NotFormatted /\ filtered = NotFiltered

SpecGenerate == InitGenerate /\ [][NextGenerate]_vars

\* Two deliveries on the inbound channel, each run by its own task: the tasks
\* of the errgroup run concurrently and share the database, the exchange and
\* the context.
Deliveries == 1 .. (MaxTasks + 1)

InitPair ==
    InitDb /\ InitHandlersOf(Deliveries) /\ webhook \in BOOLEAN /\ NoDirectCalls

SpecPair == InitPair /\ [][Next]_vars

\* ------------------------------------------------------------ the claims

CallsOf(h, op) == {i \in DOMAIN calls[h] : calls[h][i].op = op}

Count(h, op) == Cardinality(CallsOf(h, op))

\* The call op was made and returned without error.
CallSucceeded(h, op) == \E i \in CallsOf(h, op) : calls[h][i].ok

\* The call op was made and returned an error.
CallFailed(h, op) == \E i \in CallsOf(h, op) : ~calls[h][i].ok

\* RequestAlertRedemption has returned a transaction to the handler.
Reserved(h) == CallSucceeded(h, "RequestAlertRedemption")

\* The handler invocation is over, by return or by panic.
Completed(h) == pc[h] \in {"returned", "panicked"}

\* The alert event of task h's request is on the onscreen-events exchange.
Published(h) == \E i \in DOMAIN onscreenEvents : onscreenEvents[i].viewer = h

\* C1: once RequestAlertRedemption has returned a transaction, Finalize is
\* invoked exactly once on every exit path of the handler (error return,
\* successful return, panic, cancellation): never twice, never without a
\* transaction, never before the handler leaves, and once by the time it has left.
C1_FinalizeOnEveryExit ==
    \A h \in Tasks :
        /\ Count(h, "Finalize") <= 1
        /\ ~Reserved(h) => Count(h, "Finalize") = 0
        /\ ~Completed(h) => Count(h, "Finalize") = 0
        /\ Completed(h) /\ Reserved(h) => Count(h, "Finalize") = 1

\* A handler that panicked while formatting the prompt has finalized once.
C1_Witness ==
    \E h \in Tasks : pc[h] = "panicked" /\ Reserved(h) /\ Count(h, "Finalize") = 1

\* C2: Accept is called at most once, only after the event publish of the same
\* request returned without error (hence after the Image insert and
\* MarkSuccess returned without error), and never on a path where a step failed.
C2_AcceptOnlyAfterPublish ==
    \A h \in Tasks :
        /\ Count(h, "Accept") <= 1
        /\ \A i \in CallsOf(h, "Accept") :
            /\ \E j \in 1 .. (i - 1) : calls[h][j] = Call("Send", TRUE, << >>)
            /\ \E j \in 1 .. (i - 1) : calls[h][j] = Call("RecordImage", TRUE, << >>)
            /\ \E j \in 1 .. (i - 1) :
                   calls[h][j] = Call("RecordImageRequestSuccess", TRUE, << >>)
            /\ \A j \in 1 .. (i - 1) : calls[h][j].ok
        /\ (\E j \in DOMAIN calls[h] : ~calls[h][j].ok /\ calls[h][j].op # "Accept"
                                       /\ calls[h][j].op # "Finalize")
              => Count(h, "Accept") = 0

\* A handler has called Accept.
C2_Witness == \E h \in Tasks : Count(h, "Accept") = 1 /\ Completed(h)

\* C3: over any handler invocation that held a reservation, exactly one of
\* Accept (committed) or Finalize-as-reject (refunded) is the terminal ledger
\* action, never both and never neither; a failed Accept is followed by a
\* reject, a successful Accept makes the deferred Finalize a no-op.
C3_ExactlyOneTerminalLedgerAction ==
    \A h \in Tasks :
        Completed(h) /\ Reserved(h) =>
            /\ ledger[h] \in {"accepted", "rejected"}
            /\ CallFailed(h, "Accept") => ledger[h] = "rejected"
            /\ CallSucceeded(h, "Accept") => ledger[h] = "accepted"

\* C4: a handler invocation that obtained a reservation and returns a non-nil
\* error leaves the reservation rejected, never committed.
C4_ErrorReturnRefunds ==
    \A h \in Tasks :
        pc[h] = "returned" /\ Reserved(h) /\ retErr[h] # "nil"
            => ledger[h] = "rejected"

\* C5: points are debited only upon success: a committed reservation implies
\* that the request's row is terminal with a null error_message, that an Image
\* row with index 0 exists, and that the alert event has been published.
C5_DebitOnlyUponSuccess ==
    \A h \in Tasks :
        ledger[h] = "accepted" =>
            /\ HasRequest(image_request, Id(h))
            /\ Succeeded(RequestRow(image_request, Id(h)))
            /\ \E i \in image : i.image_request_id = Id(h) /\ i.index = 0
            /\ Published(h)

\* A reservation has been committed.
C5_Witness == \E h \in Tasks : ledger[h] = "accepted" /\ pc[h] = "returned"

\* C6 as stated: whenever the alert event of a request has been published,
\* the request's reservation ends committed.
C6_PublishedImpliesCommitted ==
    \A h \in Tasks : pc[h] = "returned" /\ Published(h) => ledger[h] = "accepted"

\* C6 as amended: whenever the alert event has been published, the handler
\* calls Accept exactly once before it returns; the reservation ends committed
\* exactly when that call succeeds, and the handler returns nil exactly then.
C6_PublishedThenAcceptAttempted ==
    \A h \in Tasks :
        pc[h] = "returned" /\ Published(h) =>
            /\ Count(h, "Accept") = 1
            /\ ledger[h] = "accepted" <=> CallSucceeded(h, "Accept")
            /\ retErr[h] = "nil" <=> CallSucceeded(h, "Accept")

\* The alert was published, Accept failed, and the reservation is not committed.
C6_Witness ==
    \E h \in Tasks :
        pc[h] = "returned" /\ Published(h) /\ CallFailed(h, "Accept")
        /\ ledger[h] # "accepted"

\* C7: when the context is cancelled while a handler holds a pending
\* reservation, the deferred Finalize still runs and the reservation ends
\* rejected.
C7_CancelledStillRefunds ==
    \A h \in Tasks :
        Completed(h) /\ Reserved(h) /\ ~CtxLive /\ ledger[h] # "accepted"
            => Count(h, "Finalize") = 1 /\ ledger[h] = "rejected"

\* C8: for any id, over any sequence of MarkFailure and MarkSuccess
\* statements at most one reports a changed row, and a row that has left the
\* in-flight state is never changed again.
C8_SingleTerminalization ==
    /\ [](\A id \in Uuids : affected[id] <= 1)
    /\ [][\A r \in image_request : Terminal(r) => r \in image_request']_vars

\* A Mark statement found the row of its id already terminalized by an
\* earlier one and reported no changed row.
C8_Witness ==
    /\ lastCall.op \in {"RecordImageRequestFailure", "RecordImageRequestSuccess"}
    /\ lastCall.n = 0
    /\ affected[lastCall.id] = 1

\* C9: MarkFailure or MarkSuccess on an id that is unknown or whose row is
\* terminal reports 0 changed rows without error and leaves every row of
\* every table as it was.
C9_NoEffectOnUnknownOrTerminal ==
    [][(/\ lastCall'.op \in {"RecordImageRequestFailure", "RecordImageRequestSuccess"}
        /\ \/ ~HasRequest(image_request, lastCall'.id)
           \/ Terminal(RequestRow(image_request, lastCall'.id)))
       => /\ lastCall'.n = 0
          /\ lastCall'.ok
          /\ image_request' = image_request
          /\ image' = image
          /\ answer' = answer]_vars

\* MarkFailure has just run on a failed row, at a later time and with another
\* message than the row holds.
C9_Witness ==
    /\ lastCall.op = "RecordImageRequestFailure"
    /\ lastCall.n = 0
    /\ \E r \in image_request :
        /\ r.id = lastCall.id /\ Failed(r) /\ r.finished_at < clock

\* C10 as stated: in every database state every Image row references an
\* ImageRequest whose finished_at is non-null and whose error_message is null.
C10_ImageOnlyOfSucceededRequest ==
    \A i \in image :
        /\ HasRequest(image_request, i.image_request_id)
        /\ Succeeded(RequestRow(image_request, i.image_request_id))

\* C10 as amended: every Image row references an existing ImageRequest whose
\* error_message is null, and whose finished_at is non-null once the
\* handler's MarkSuccess has returned without error; until then the row is
\* still in flight.
C10_ImageNeverOfFailedRequest ==
    \A i \in image :
        /\ HasRequest(image_request, i.image_request_id)
        /\ RequestRow(image_request, i.image_request_id).error_message = NullText
        /\ \A h \in Tasks :
               Id(h) = i.image_request_id /\ CallSucceeded(h, "RecordImageRequestSuccess")
                   => Terminal(RequestRow(image_request, i.image_request_id))

\* The handler has returned and its Image row references a request that is
\* still in flight: MarkSuccess failed.
C10_Witness ==
    \E h \in Tasks, i \in image :
        /\ pc[h] = "returned" /\ i.image_request_id = Id(h)
        /\ InFlight(RequestRow(image_request, Id(h)))

\* C11: in every database state, every ImageRequest row has a non-null
\* error_message only if its finished_at is non-null: each row is in exactly
\* one of the states in-flight (both null), succeeded (finished_at set,
\* error_message null) or failed (both set).
C11_ErrorMessageImpliesFinished ==
    \A r \in image_request :
        /\ r.error_message # NullText => r.finished_at # NullTime
        /\ Cardinality({st \in {"in-flight", "succeeded", "failed"} :
               \/ st = "in-flight" /\ r.finished_at = NullTime /\ r.error_message = NullText
               \/ st = "succeeded" /\ r.finished_at # NullTime /\ r.error_message = NullText
               \/ st = "failed" /\ r.finished_at # NullTime /\ r.error_message # NullText}) = 1

\* A failed row and a succeeded row are in the table, and MarkFailure has just
\* been run on an in-flight row.
C11_Witness ==
    /\ lastCall.op = "RecordImageRequestFailure" /\ lastCall.n = 1
    /\ \E r \in image_request : Failed(r)
    /\ \E r \in image_request : Succeeded(r)

\* The operations of the calls task h has made, in order.
Ops(h) == [i \in DOMAIN calls[h] |-> calls[h][i].op]

\* No row of any table carries the request id of task h.
NoDbTrace(h) ==
    /\ \A r \in image_request : r.id # h
    /\ \A i \in image : i.image_request_id # h
    /\ \A k \in DOMAIN answer : answer[k].image_request_id # h

\* C12: when the same inbound message is delivered twice, the second
\* invocation's insert fails as a duplicate and nothing happens twice: of two
\* invocations on the same message at most one inserts its row, calls the
\* generation API, uploads, stores an Image row, publishes the alert and
\* commits the debit, and the other one ends rejected.
C12_DuplicateDeliveryRejected ==
    \A a, b \in DOMAIN pc :
        (/\ a < b /\ msg[a] = msg[b] /\ msg[a].parses /\ msg[a].type = "image"
         /\ Completed(a) /\ Completed(b))
        => /\ ~(CallSucceeded(a, "RecordImageRequest") /\ CallSucceeded(b, "RecordImageRequest"))
           /\ ~(Count(a, "GenerateImage") > 0 /\ Count(b, "GenerateImage") > 0)
           /\ ~(Count(a, "Upload") > 0 /\ Count(b, "Upload") > 0)
           /\ ~(Published(a) /\ Published(b))
           /\ ~(ledger[a] = "accepted" /\ ledger[b] = "accepted")

\* C13: if RecordImageRequest fails, the handler returns that error at once:
\* no MarkFailure, no generation call, no upload, no Image or Answer insert
\* and no publish; no row is written; the deferred Finalize rejects the
\* reservation.
C13_InsertFailureShortCircuits ==
    \A h \in Tasks :
        CallFailed(h, "RecordImageRequest") /\ Completed(h) =>
            /\ retErr[h] = "insert error"
            /\ Ops(h) = <<"RequestServiceToken", "RequestAlertRedemption",
                          "RecordImageRequest", "Finalize">>
            /\ NoDbTrace(h)
            /\ ~Published(h)
            /\ ledger[h] = "rejected"

\* C14: errors before the ImageRequest insert leave no database trace: a
\* failed service-token request is the handler's only call, and a failed
\* ledger reservation is followed by no database write, no generation call
\* and no Finalize or Accept.
C14_NoTraceBeforeInsert ==
    \A h \in Tasks :
        /\ CallFailed(h, "RequestServiceToken") =>
              /\ Ops(h) = <<"RequestServiceToken">>
              /\ pc[h] = "returned" /\ retErr[h] = "auth error"
              /\ ledger[h] = "none" /\ deferred[h] = {}
              /\ NoDbTrace(h) /\ ~Published(h)
        /\ CallFailed(h, "RequestAlertRedemption") =>
              /\ Ops(h) = <<"RequestServiceToken", "RequestAlertRedemption">>
              /\ pc[h] = "returned" /\ retErr[h] = "ledger error"
              /\ ledger[h] = "none" /\ deferred[h] = {}
              /\ NoDbTrace(h) /\ ~Published(h)

\* The ledger has refused the reservation and the handler has returned.
C14_Witness ==
    \E h \in Tasks :
        /\ CallFailed(h, "RequestAlertRedemption") /\ pc[h] = "returned" /\ CtxLive

\* The steps of the handler that can fail after the insert, and the error
\* each of them yields.
ErrorsOf(op) ==
    CASE op = "GenerateText" -> {"text error"}
      [] op = "RecordAnswer" -> {"answer error"}
      [] op = "GenerateImage" -> {"image rejected", "image error"}
      [] op = "CreateTemp" -> {"create error"}
      [] op = "Write" -> {"write error"}
      [] op = "RemoveBackground" -> {"filter error"}
      [] op = "ReadFile" -> {"read error"}
      [] op = "Decode" -> {"decode error"}
      [] op = "Encode" -> {"encode error"}
      [] op = "Upload" -> {"upload error"}
      [] op = "RecordImage" -> {"record image error"}
      [] op = "RecordImageRequestSuccess" -> {"success error"}
      [] op = "Send" -> {"send error"}
      [] op = "Accept" -> {"accept error"}
      [] OTHER -> {}

\* The positions of the failed steps after the insert in task h's call log.
LateFailures(h) == {j \in DOMAIN calls[h] : ~calls[h][j].ok /\ ErrorsOf(calls[h][j].op) # {}}

\* C15 as stated: for every failure after the ImageRequest insert the handler
\* calls MarkFailure for its own id before returning and returns the original
\* error, so that when the MarkFailure call reaches the database the row ends
\* terminal with a non-null error_message.
C15_EveryLateFailureMarksFailed ==
    \A h \in Tasks :
        pc[h] = "returned" /\ LateFailures(h) # {} =>
            /\ Count(h, "RecordImageRequestFailure") = 1
            /\ \A j \in LateFailures(h) : retErr[h] \in ErrorsOf(calls[h][j].op)
            /\ CallSucceeded(h, "RecordImageRequestFailure")
                  => Failed(RequestRow(image_request, Id(h)))

\* C15 as amended: a failure of any step after the insert other than
\* MarkSuccess and Accept is followed at once by exactly one MarkFailure call
\* for the handler's own id, carrying the message of the error (prefixed for a
\* text-generation error); the handler returns the error of the failed step
\* whatever MarkFailure returned.  When that MarkFailure call reaches the
\* database the row ends failed with that message, except after a failed
\* publish, where the row stays succeeded.  A failed MarkSuccess or Accept is
\* returned without a MarkFailure call, and the row does not end failed.
C15_RoutedFailuresMarkFailed ==
    \A h \in Tasks :
        pc[h] = "returned" =>
            /\ Cardinality(LateFailures(h)) <= 1
            /\ \A j \in LateFailures(h) :
                LET op == calls[h][j].op
                    row == RequestRow(image_request, Id(h))
                IN  /\ retErr[h] \in ErrorsOf(op)
                    /\ HasRequest(image_request, Id(h))
                    /\ IF op \in {"RecordImageRequestSuccess", "Accept"}
                       THEN /\ Count(h, "RecordImageRequestFailure") = 0
                            /\ ~Failed(row)
                       ELSE /\ Count(h, "RecordImageRequestFailure") = 1
                            /\ calls[h][j + 1].op = "RecordImageRequestFailure"
                            /\ calls[h][j + 1].arg =
                                  (IF op = "GenerateText"
                                   THEN TextGenerationMessage(retErr[h])
                                   ELSE Message(retErr[h]))
                            /\ calls[h][j + 1].ok =>
                                  IF op = "Send"
                                  THEN Succeeded(row)
                                  ELSE /\ Failed(row)
                                       /\ row.error_message = calls[h][j + 1].arg

\* Text generation failed: the row holds the prefixed message and the handler
\* has returned the error itself.
C15_Witness ==
    \E h \in Tasks :
        /\ pc[h] = "returned" /\ retErr[h] = "text error"
        /\ HasRequest(image_request, Id(h))
        /\ RequestRow(image_request, Id(h)).error_message
              = TextGenerationMessage("text error")

\* The generation API has rejected the prompt of task h's request.
Rejected(h) ==
    /\ Completed(h)
    /\ \E j \in CallsOf(h, "GenerateImage") : ~calls[h][j].ok
    /\ retErr[h] = "image rejected"

\* The text m contains the API's message.
ContainsApiMessage(m) == \E k \in DOMAIN m : m[k] = ApiMessage

C17_PublishFailureAfterSuccessMark ==
    \A h \in Tasks :
        (/\ Completed(h) /\ CallSucceeded(h, "RecordImageRequestSuccess")
         /\ CallFailed(h, "Send")) =>
            /\ Count(h, "RecordImageRequestFailure") = 1
            /\ affected[Id(h)] = 1
            /\ Succeeded(RequestRow(image_request, Id(h)))
            /\ Count(h, "Accept") = 0
            /\ retErr[h] = "send error"
            /\ Count(h, "Finalize") = 1
            /\ ledger[h] = "rejected"

\* The external effects of one request, in the order of handleImageRequest.
StepOrder(style) ==
    <<"RequestServiceToken", "RequestAlertRedemption", "RecordImageRequest">>
    \o (IF style = "friend" THEN <<"GenerateText", "RecordAnswer">> ELSE << >>)
    \o <<"GenerateImage">>
    \o (IF style = "friend"
        THEN <<"CreateTemp", "Write", "RemoveBackground", "ReadFile">>
        ELSE <<"Decode", "Encode">>)
    \o <<"Upload", "RecordImage", "RecordImageRequestSuccess", "Send", "Accept">>

\* A call that is a step of the protocol, not failure bookkeeping or cleanup.
IsStep(c) == c.op \notin {"RecordImageRequestFailure", "Finalize"}

Steps(h) == SelectSeq(calls[h], IsStep)

\* C18: within one request the external effects occur in the strict order of
\* the protocol: the steps made so far are an initial part of the order for
\* the request's style, each step but the last one made has returned without
\* error, and the Discord post is spawned only after a successful Accept, for
\* a ghost with a webhook configured.
C18_StrictStepOrder ==
    \A h \in Tasks :
        /\ Len(Steps(h)) <= Len(StepOrder(msg[h].style))
        /\ \A i \in DOMAIN Steps(h) :
              /\ Steps(h)[i].op = StepOrder(msg[h].style)[i]
              /\ i < Len(Steps(h)) => Steps(h)[i].ok
        /\ discord[h] # "none" =>
              /\ CallSucceeded(h, "Accept")
              /\ msg[h].style = "ghost" /\ webhook
        /\ (pc[h] = "returned" /\ CallSucceeded(h, "Accept")
             /\ msg[h].style = "ghost" /\ webhook) => discord[h] # "none"

\* A friend request has gone through every step of the protocol.
C18_Witness ==
    \E h \in Tasks :
        /\ pc[h] = "returned" /\ msg[h].style = "friend"
        /\ Len(Steps(h)) = Len(StepOrder("friend"))
        /\ CallSucceeded(h, "Accept")

\* C19: Handle, given a request whose type is not image, returns nil and has
\* no side effect: no auth call, no reservation, no database write, no
\* generation call, no upload, no publish.
C19_OtherTypeIsNoOp ==
    \A h \in Tasks :
        msg[h].parses /\ msg[h].type # "image" /\ pc[h] # "idle" =>
            /\ pc[h] \in {"spawned", "returned"}
            /\ retErr[h] = "nil"
            /\ calls[h] = << >>
            /\ ledger[h] = "none" /\ deferred[h] = {}
            /\ NoDbTrace(h) /\ ~Published(h)
            /\ \A f \in tempFiles : f[1] # h
            /\ discord[h] = "none"
            /\ TaskError(h, retErr[h]) = "nil"

\* Handle has returned for a request of another type.
C19_Witness ==
    \E h \in Tasks : msg[h].parses /\ msg[h].type = "other" /\ pc[h] = "returned"

\* C20: the dispatch loop terminates only when the inbound channel closes or
\* the ambient cancellation signal fires; a task that returns an error
\* (failed request or unparsable message) does not make the pool stop: it
\* leaves the loop's context live.
C20_LoopStopsOnlyOnCloseOrSignal ==
    /\ [][(loopDone' /\ ~loopDone) => (chanClosed \/ ctxErr = "signal")]_vars
    /\ []((\E h \in Tasks : pc[h] = "returned" /\ retErr[h] # "nil")
            => ctxErr \in {"none", "signal"})

\* The handler of task h is in flight: spawned and not yet over.
InFlightHandler(h) == pc[h] \notin {"idle", "returned", "panicked"}

\* C21: handlers running concurrently share no in-process mutable state: a
\* task that fails (returns an error) leaves everything another in-flight
\* handler's outcome depends on as it was: the context that handler's calls
\* are issued with, its position, calls, result and reservation.
C21_TaskFailureLeavesOthersAlone ==
    [][\A a, b \in DOMAIN pc :
          (/\ a # b /\ InFlightHandler(b)
           /\ pc[a] # "returned" /\ pc'[a] = "returned" /\ retErr'[a] # "nil")
          => /\ ctxErr' = ctxErr
             /\ pc'[b] = pc[b] /\ calls'[b] = calls[b] /\ retErr'[b] = retErr[b]
             /\ ledger'[b] = ledger[b] /\ locals'[b] = locals[b]]_vars

\* C22: once the context is cancelled the worker pool accepts no new message:
\* no task is spawned in a state where the context is already cancelled.
C22_NoDispatchAfterCancel ==
    [][\A h \in DOMAIN pc :
          (pc[h] = "idle" /\ pc'[h] = "spawned") => CtxLive]_vars

\* C23: after the dispatch loop has exited, wg.Wait() does not return until
\* every task that was spawned has returned; and, every handler terminating,
\* it eventually returns (unless a panic has ended the process).
C23_WaitJoinsEveryTask ==
    /\ [](waited => loopDone /\ \A h \in Tasks : pc[h] \in {"idle", "returned"})
    /\ (loopDone ~> (waited \/ crashed))

\* wg.Wait() has returned after a handler that held a reservation.
C23_Witness ==
    waited /\ \E h \in Tasks : pc[h] = "returned" /\ Reserved(h)

\* The temp files of task h's request that are on disk.
TempFilesOf(h) == {f \in tempFiles : f[1] = h}

\* C24: every temp file the handler created (the input PNG, the output WEBP
\* of the post-processor) is removed by the time the handler returns, on
\* every exit path; until the input file is created there is none, and only a
\* friend request has any.
C24_TempFilesRemovedOnExit ==
    \A h \in Tasks :
        /\ pc[h] = "returned" => TempFilesOf(h) = {}
        /\ ~CallSucceeded(h, "CreateTemp") => TempFilesOf(h) = {}
        /\ msg[h].style # "friend" => TempFilesOf(h) = {}

\* The post-processor has failed after the input file was written, and the
\* handler has returned with no temp file left.
C24_Witness ==
    \E h \in Tasks :
        /\ pc[h] = "returned" /\ CallSucceeded(h, "Write")
        /\ CallFailed(h, "RemoveBackground") /\ TempFilesOf(h) = {}

\* C25 as stated: every ImageRequest row is terminal once the handler that
\* inserted it has returned, whichever step failed or succeeded.
C25_RowTerminalOnReturn ==
    \A h \in Tasks :
        pc[h] = "returned" /\ CallSucceeded(h, "RecordImageRequest") =>
            /\ HasRequest(image_request, Id(h))
            /\ Terminal(RequestRow(image_request, Id(h)))

\* C25 as amended: an ImageRequest row is never deleted and leaves the
\* in-flight state at most once (a terminal row never changes again); once
\* the handler that inserted it has returned, the row is terminal exactly
\* when one of the handler's MarkSuccess or MarkFailure calls returned without
\* error, and is still in flight otherwise.
C25_RowTerminalIffMarked ==
    /\ [][\A r \in image_request :
             /\ \E r2 \in image_request' : r2.id = r.id
             /\ Terminal(r) => r \in image_request']_vars
    /\ [](\A h \in Tasks :
             pc[h] = "returned" /\ CallSucceeded(h, "RecordImageRequest") =>
                 /\ HasRequest(image_request, Id(h))
                 /\ Terminal(RequestRow(image_request, Id(h)))
                      <=> \/ CallSucceeded(h, "RecordImageRequestSuccess")
                          \/ CallSucceeded(h, "RecordImageRequestFailure"))

\* A step failed, the MarkFailure call failed too, and the handler has
\* returned with its row still in flight.
C25_Witness ==
    \E h \in Tasks :
        /\ pc[h] = "returned" /\ CallFailed(h, "RecordImageRequestFailure")
        /\ HasRequest(image_request, Id(h))
        /\ InFlight(RequestRow(image_request, Id(h)))

\* C26: RecordImageRequest on a fresh id adds exactly one row, in flight
\* (created_at set, finished_at and error_message null), with the given user,
\* style, inputs and prompt; on an id that exists it fails and leaves the
\* existing row and every other row as they were.
C26_InsertFreshOrFail ==
    [][lastCall'.op = "RecordImageRequest" =>
         LET arg == lastCall'.arg
             added == image_request' \ image_request
         IN  /\ image' = image /\ answer' = answer
             /\ image_request \subseteq image_request'
             /\ IF HasRequest(image_request, arg.image_request_id)
                THEN ~lastCall'.ok /\ image_request' = image_request
                ELSE /\ lastCall'.ok
                     /\ Cardinality(added) = 1
                     /\ \A r \in added :
                          /\ r.id = arg.image_request_id
                          /\ r.twitch_user_id = arg.twitch_user_id
                          /\ r.style = arg.style
                          /\ r.inputs = arg.inputs
                          /\ r.prompt = arg.prompt
                          /\ r.created_at = clock /\ r.created_at # NullTime
                          /\ r.finished_at = NullTime
                          /\ r.error_message = NullText]_vars

\* The insert has just been refused for an id whose row holds another user's
\* request, while another row is in the table.
C26_Witness ==
    /\ lastCall.op = "RecordImageRequest" /\ ~lastCall.ok
    /\ \E r \in image_request :
          r.id = lastCall.id /\ r.twitch_user_id # lastCall.arg.twitch_user_id
    /\ \E r \in image_request : r.id # lastCall.id

\* C27: every published alert event has exactly one of details.ghost and
\* details.friend populated, the one that matches its image type, and its
\* image type is friend exactly when the request's style is friend.
C27_EventBranchMatchesType ==
    \A i \in DOMAIN onscreenEvents :
        LET ev == onscreenEvents[i]
        IN  /\ ev.imageType \in {"ghost", "friend"}
            /\ Cardinality(ev.ghost) + Cardinality(ev.friend) = 1
            /\ ev.imageType = "ghost" <=> ev.ghost # {}
            /\ ev.imageType = "friend" <=> ev.friend # {}
            /\ ev.imageType = "friend" <=> msg[ev.viewer].style = "friend"

\* A friend event and nothing else has been published.
C27_Witness ==
    /\ Len(onscreenEvents) = 1
    /\ onscreenEvents[1].imageType = "friend" /\ onscreenEvents[1].ghost = {}

\* The text c matches ^#[0-9a-f]{6}$.
IsHexColor(c) ==
    /\ Len(c) = 7
    /\ c[1] = "#"
    /\ \A k \in 2 .. 7 : c[k] \in HexDigits

\* C28: every Image row written by the handler has a color matching
\* ^#[0-9a-f]{6}$: "#000000" for a request that is not a friend request, and
\* for a friend request the color RemoveBackground returned, which is also
\* the backgroundColor of the published friend event.
C28_ImageColorIsHex ==
    \A i \in image : \A h \in Tasks :
        i.image_request_id = Id(h) =>
            /\ IsHexColor(i.color)
            /\ msg[h].style # "friend" => i.color = Black
            /\ msg[h].style = "friend" =>
                  /\ Count(h, "RemoveBackground") = 1
                  /\ \A j \in CallsOf(h, "RemoveBackground") :
                        calls[h][j].ok /\ calls[h][j].arg = i.color
                  /\ \A k \in DOMAIN onscreenEvents :
                        onscreenEvents[k].viewer = h =>
                            \A d \in onscreenEvents[k].friend :
                                d.backgroundColor = i.color

\* A friend image is stored with the color the post-processor reported ahead
\* of other output, and its event is published.
C28_Witness ==
    \E h \in Tasks, i \in image :
        /\ i.image_request_id = Id(h) /\ Published(h)
        /\ i.color = <<"#", "f", "f", "e", "e", "0", "1">>

\* The friend prompt's fixed text that follows the subject.
ClipArt == <<", illustrated in the style of 1990s digital clip art images">>

\* C29: for style friend, formatPrompt strips a leading "a " or "an " from
\* the subject and emits the article "an" if the color's first letter is a
\* vowel and "a" otherwise, for every subject and every non-empty color;
\* subject "an ostrich" with color "orange" gives a prompt that starts with
\* "an orange ostrich, illustrated in the style of 1990s digital clip art
\* images".
C29_FriendArticleFollowsColor ==
    (formatted.called /\ formatted.style = "friend" /\ formatted.inputs.color # << >>) =>
        LET s == formatted.inputs.subject
            c == formatted.inputs.color
            an == IF c[1] \in {"a", "e", "i", "o", "u"} THEN <<"a", "n">> ELSE <<"a">>
        IN  /\ ~formatted.panics
            /\ (Len(s) >= 2 /\ s[1] = "a" /\ s[2] = " ") =>
                  HasPrefix(formatted.prompt,
                            an \o <<" ">> \o c \o <<" ">> \o SubSeq(s, 3, Len(s)) \o ClipArt)
            /\ (Len(s) >= 3 /\ s[1] = "a" /\ s[2] = "n" /\ s[3] = " ") =>
                  HasPrefix(formatted.prompt,
                            an \o <<" ">> \o c \o <<" ">> \o SubSeq(s, 4, Len(s)) \o ClipArt)
            /\ (s = AnOstrich /\ c = Orange) =>
                  HasPrefix(formatted.prompt,
                            <<"a", "n", " ", "o", "r", "a", "n", "g", "e", " ",
                              "o", "s", "t", "r", "i", "c", "h">> \o ClipArt)

\* formatPrompt has been called with subject "an ostrich" and color "orange".
C29_Witness ==
    /\ formatted.called
    /\ formatted.style = "friend"
    /\ formatted.inputs = Inputs(AnOstrich, Orange)
    /\ Len(formatted.prompt) > 0

\* C30: for style friend, when the article is empty (the subject begins with
\* "the " or with no article), the prompt has no leading space: it begins
\* directly with the color.
C30_NoLeadingSpaceWithoutArticle ==
    (/\ formatted.called
     /\ formatted.style = "friend" /\ formatted.inputs.color # << >>
     /\ ~HasPrefix(formatted.inputs.subject, <<"a", " ">>)
     /\ ~HasPrefix(formatted.inputs.subject, <<"a", "n", " ">>))
    => /\ formatted.prompt[1] # " "
       /\ HasPrefix(formatted.prompt, formatted.inputs.color)

\* Content types formatImageKey is given: the three it names and two others.
ContentTypes == {"image/png", "image/webp", "image/jpeg", "image/gif", ""}

\* C31: formatImageKey(id, contentType) is "{id}/{id}-0{ext}" with ext ".png"
\* for image/png, ".webp" for image/webp and ".jpg" for image/jpeg and every
\* other content type; the key handed to Upload ends in ".jpg" for a ghost
\* request and in ".webp" for a friend request.
C31_ImageKeyExtension ==
    /\ \A id \in Uuids, ct \in ContentTypes :
          FormatImageKey(id, ct) =
              <<id, "/", id, "-0">>
              \o <<CASE ct = "image/png" -> ".png"
                     [] ct = "image/webp" -> ".webp"
                     [] OTHER -> ".jpg">>
    /\ \A h \in DOMAIN pc : \A j \in 1 .. Len(calls[h]) :
          calls[h][j].op = "Upload" =>
              /\ Len(calls[h][j].arg) = 5
              /\ SubSeq(calls[h][j].arg, 1, 4) = <<Id(h), "/", Id(h), "-0">>
              /\ (msg[h].style = "ghost" => calls[h][j].arg[5] = ".jpg")
              /\ (msg[h].style = "friend" => calls[h][j].arg[5] = ".webp")

\* A friend request has uploaded its image.
C31_Witness ==
    \E h \in DOMAIN pc :
        /\ msg[h].style = "friend"
        /\ \E j \in 1 .. Len(calls[h]) :
              calls[h][j].op = "Upload" /\ calls[h][j].ok

\* Where the lines of the text s begin.
LineStarts(s) == {i \in 1 .. Len(s) : i = 1 \/ s[i - 1] = "\n"}

\* The lowercase #rrggbb token at position i of s, if there is one.
ColorAt(s, i) == ParseColor(SubSeq(s, i, Len(s)))

\* C32: RemoveBackground returns the detected color whenever the command
\* exits 0 and its standard error contains a line beginning with a lowercase
\* #rrggbb token (the first such token), and fails when the command exits
\* non-zero or there is no such line; parseColor("#ffee01\nsomething else\n")
\* is "#ffee01" and parseColor("hello world") fails with an empty result.
C32_ColorOfFirstColorLine ==
    filtered.called =>
        LET s == filtered.stderr
            at == {i \in LineStarts(s) : ColorAt(s, i).ok}
        IN  /\ (filtered.exit0 /\ at # {}) =>
                  /\ filtered.ok
                  /\ \E i \in at :
                        /\ \A j \in at : i <= j
                        /\ filtered.color = ColorAt(s, i).color
            /\ (~filtered.exit0 \/ at = {}) => (~filtered.ok /\ filtered.color = << >>)
            /\ (filtered.exit0 /\ s = <<"#", "f", "f", "e", "e", "0", "1", "\n", "s", "o", "m",
                                        "e", "t", "h", "i", "n", "g", " ", "e", "l", "s", "e",
                                        "\n">>)
                  => (filtered.ok /\ filtered.color = <<"#", "f", "f", "e", "e", "0", "1">>)
            /\ (s = <<"h", "e", "l", "l", "o", " ", "w", "o", "r", "l", "d">>)
                  => (~filtered.ok /\ filtered.color = << >>)

\* The API answered with an APIError of status 400 and type invalid_request_error.
IsRejection(r) ==
    r.kind = "api error" /\ r.status = 400 /\ r.type = "invalid_request_error"

\* C36: GenerateText and GenerateImage yield a rejection (an error that
\* unwraps to ErrRejected and carries the API's message) if and only if the
\* API error has status 400 and type invalid_request_error; every other
\* failure (other status or type, transport error, result count other than 1,
\* empty text, failed or non-200 download, content type other than image/png)
\* is an error that is no rejection.
C36_RejectionIffInvalidRequest ==
    generated.called =>
        LET r == generated.response
        IN  /\ generated.rejected <=> IsRejection(r)
            /\ generated.rejected =>
                  /\ ~generated.ok
                  /\ generated.message = <<"image generation request rejected", ApiMessage>>
            /\ (r.kind # "ok" /\ ~IsRejection(r)) => (~generated.ok /\ ~generated.rejected)
            /\ (r.kind = "ok" /\ r.count # 1) => (~generated.ok /\ ~generated.rejected)
            /\ (generated.fn = "text" /\ r.kind = "ok" /\ r.text = "")
                  => (~generated.ok /\ ~generated.rejected)
            /\ (generated.fn = "image" /\ r.kind = "ok"
                /\ (r.download # "ok" \/ r.downloadStatus # 200
                    \/ r.contentType # "image/png"))
                  => (~generated.ok /\ ~generated.rejected)
            /\ (generated.fn = "text" /\ r.kind = "ok" /\ r.count = 1 /\ r.text # "")
                  => generated.ok

\* GenerateImage has turned a 400 invalid_request_error into a rejection.
C36_Witness ==
    /\ generated.called
    /\ generated.fn = "image"
    /\ IsRejection(generated.response)
    /\ generated.rejected

\* C33: if RecordImageRequestSuccess returns an error, the handler returns
\* that error as it is without calling recordFailure: no alert event is
\* published, Accept is not called, and the deferred Finalize rejects the
\* reservation.
C33_SuccessMarkFailureReturnedAsIs ==
    \A h \in Tasks :
        (Completed(h) /\ CallFailed(h, "RecordImageRequestSuccess")) =>
            /\ retErr[h] = "success error"
            /\ Count(h, "RecordImageRequestFailure") = 0
            /\ Count(h, "Send") = 0
            /\ ~Published(h)
            /\ Count(h, "Accept") = 0
            /\ Count(h, "Finalize") = 1
            /\ ledger[h] = "rejected"

\* C34: for every failure routed through recordFailure, the error_message
\* passed to MarkFailure is exactly the message of the error that the handler
\* then returns, for every failing step including a failed text generation.
C34_RecordedMessageIsReturnedError ==
    \A h \in Tasks :
        Completed(h) =>
            \A j \in CallsOf(h, "RecordImageRequestFailure") :
                calls[h][j].arg = Message(retErr[h])

\* The Discord post of handler h was spawned only for a ghost, with a webhook
\* configured, after Accept had succeeded and with the handler returning nil.
DiscordOnlyAfterAccept(h) ==
    discord[h] # "none" =>
        /\ webhook
        /\ msg[h].style = "ghost"
        /\ CallSucceeded(h, "Accept")
        /\ Count(h, "Accept") = 1
        /\ retErr[h] = "nil"
        /\ ledger[h] = "accepted"
        /\ Published(h)

\* A step changes the Discord post of h only by spawning it once or by ending
\* it once, and its end changes nothing else.
DiscordStep(h) ==
    discord'[h] # discord[h] =>
        \/ discord[h] = "none" /\ discord'[h] = "spawned"
        \/ /\ discord[h] = "spawned" /\ discord'[h] \in {"posted", "failed"}
           /\ UNCHANGED <<dbVars, ledger, onscreenEvents, retErr, groupErr, ctxErr,
                          pc, calls>>

\* C35: the detached Discord post is spawned at most once per handler
\* invocation, only when the style is ghost and a webhook URL is configured,
\* and only after Accept succeeded; its failure never changes the handler's
\* return value, the database, the ledger result or the published event.
C35_DiscordPostIsDetached ==
    /\ [](\A h \in Tasks : DiscordOnlyAfterAccept(h))
    /\ [][\A h \in Tasks : DiscordStep(h)]_vars

\* A Discord post has failed after its handler accepted the transaction.
C35_Witness ==
    \E h \in Tasks :
        /\ discord[h] = "failed"
        /\ pc[h] = "returned"
        /\ retErr[h] = "nil"
        /\ ledger[h] = "accepted"

\* The Answer rows of handler h's request.
AnswersOf(h) == {i \in DOMAIN answer : answer[i].image_request_id = Id(h) /\ Id(h) # 0}

\* Every call op of h comes before every call op2 of h.
Before(h, op, op2) == \A i \in CallsOf(h, op), j \in CallsOf(h, op2) : i < j

\* C37: for a friend request exactly one Answer row, recording the
\* friend-name prompt built from the subject and the returned name, is
\* inserted after GenerateText succeeds and before GenerateImage is called,
\* and the published friend event carries that same name; for a non-friend
\* request GenerateText is never called and no Answer row is inserted.
C37_FriendAnswerRow ==
    \A h \in Tasks :
        IF msg[h].style = "friend"
        THEN /\ Cardinality(AnswersOf(h)) <= 1
             /\ Count(h, "GenerateText") <= 1
             /\ Count(h, "GenerateImage") > 0 => Cardinality(AnswersOf(h)) = 1
             /\ Before(h, "GenerateText", "RecordAnswer")
             /\ Before(h, "RecordAnswer", "GenerateImage")
             /\ \A i \in AnswersOf(h) :
                   /\ CallSucceeded(h, "GenerateText")
                   /\ CallSucceeded(h, "RecordAnswer")
                   /\ answer[i].prompt = FriendNamePrompt(msg[h].inputs.subject)
                   /\ \A j \in CallsOf(h, "GenerateText") :
                         calls[h][j].arg = <<answer[i].value>>
                   /\ \A k \in DOMAIN onscreenEvents :
                         onscreenEvents[k].viewer = h =>
                             /\ onscreenEvents[k].friend # {}
                             /\ \A f \in onscreenEvents[k].friend : f.name = answer[i].value
             /\ Published(h) => Cardinality(AnswersOf(h)) = 1
        ELSE /\ Count(h, "GenerateText") = 0
             /\ Count(h, "RecordAnswer") = 0
             /\ AnswersOf(h) = {}

\* A friend event has been published with the name "Zed".
C37_Witness ==
    \E h \in Tasks :
        /\ msg[h].style = "friend"
        /\ Cardinality(AnswersOf(h)) = 1
        /\ \E k \in DOMAIN onscreenEvents :
              /\ onscreenEvents[k].viewer = h
              /\ \E f \in onscreenEvents[k].friend : f.name = "Zed"

\* The steps of the pipeline of a request that is not a friend request.
NonFriendSteps ==
    <<"RequestServiceToken", "RequestAlertRedemption", "RecordImageRequest",
      "GenerateImage", "Decode", "Encode", "Upload", "RecordImage",
      "RecordImageRequestSuccess", "Send", "Accept">>

BadStylePrompt == <<"a sign that says BAD STYLE, UNABLE TO FORMAT PROMPT">>

\* C38: a request whose style is neither ghost nor friend is not rejected:
\* formatDescription yields "an image" and formatPrompt yields "a sign that
\* says BAD STYLE, UNABLE TO FORMAT PROMPT", and the handler runs the full
\* non-friend pipeline with these values (reserve, insert, GenerateImage with
\* that prompt, JPEG re-encode, upload, publish an event of image type ghost,
\* Accept), so the user is debited.
C38_UnknownStyleRunsPipeline ==
    \A h \in Tasks :
        (msg[h].type = "image" /\ msg[h].parses /\ msg[h].style \notin {"ghost", "friend"}) =>
            /\ FormatDescription(msg[h].style, msg[h].inputs) = <<"an image">>
            /\ FormatPrompt(msg[h].style, msg[h].inputs) = BadStylePrompt
            /\ \A i \in DOMAIN Steps(h) :
                  /\ i <= Len(NonFriendSteps)
                  /\ Steps(h)[i].op = NonFriendSteps[i]
                  /\ i < Len(Steps(h)) => Steps(h)[i].ok
            /\ \A j \in CallsOf(h, "GenerateImage") : calls[h][j].arg = BadStylePrompt
            /\ \A j \in CallsOf(h, "Upload") : calls[h][j].arg[5] = ".jpg"
            /\ HasRequest(image_request, Id(h)) =>
                  /\ RequestRow(image_request, Id(h)).style = msg[h].style
                  /\ RequestRow(image_request, Id(h)).prompt = BadStylePrompt
            /\ \A k \in DOMAIN onscreenEvents :
                  onscreenEvents[k].viewer = h =>
                      /\ onscreenEvents[k].imageType = "ghost"
                      /\ onscreenEvents[k].friend = {}
                      /\ \A g \in onscreenEvents[k].ghost : g.description = <<"an image">>
            /\ CallSucceeded(h, "Accept") =>
                  /\ ledger[h] = "accepted"
                  /\ Published(h)
                  /\ Succeeded(RequestRow(image_request, Id(h)))
            /\ discord[h] = "none"

\* A request of an unknown style has been carried out and the user debited.
C38_Witness ==
    \E h \in Tasks :
        /\ msg[h].type = "image" /\ msg[h].style \notin {"ghost", "friend"}
        /\ pc[h] = "returned" /\ retErr[h] = "nil"
        /\ Len(Steps(h)) = Len(NonFriendSteps)
        /\ ledger[h] = "accepted"
        /\ Published(h)

\* The alert events of handler h on the exchange.
EventsOf(h) == {k \in DOMAIN onscreenEvents : onscreenEvents[k].viewer = h}

\* The image URLs an event carries, in whichever details branch it has.
UrlsOf(ev) == {d.imageUrl : d \in ev.ghost \cup ev.friend}

\* C39: an alert event is published at most once per handler invocation, and
\* only after the request's Image row (index 0) was inserted and MarkSuccess
\* returned without error; the imageUrl carried by the event equals the url
\* stored in that Image row.
C39_PublishOnceAfterImageAndSuccess ==
    \A h \in Tasks :
        /\ Cardinality(EventsOf(h)) <= 1
        /\ Count(h, "Send") <= 1
        /\ Before(h, "RecordImage", "Send")
        /\ Before(h, "RecordImageRequestSuccess", "Send")
        /\ Count(h, "Send") > 0 =>
              /\ CallSucceeded(h, "RecordImage")
              /\ CallSucceeded(h, "RecordImageRequestSuccess")
              /\ ~CallFailed(h, "RecordImageRequestSuccess")
        /\ \A k \in EventsOf(h) :
              /\ CallSucceeded(h, "Send")
              /\ \E i \in image :
                    /\ i.image_request_id = Id(h) /\ i.index = 0
                    /\ UrlsOf(onscreenEvents[k]) = {i.url}

\* An event has been published for a request whose Image row is stored.
C39_Witness ==
    \E h \in Tasks :
        /\ Cardinality(EventsOf(h)) = 1
        /\ \E i \in image : i.image_request_id = Id(h) /\ i.index = 0

\* The rows of the three tables that are keyed by the request id.
RowsOf(requests, images, answers, id) ==
    <<{r \in requests : r.id = id},
      {i \in images : i.image_request_id = id},
      SelectSeq(answers, LAMBDA a : a.image_request_id = id)>>

\* The handler invocation h writes rows of its own request only: at most one
\* Image row, with index 0, and at most one Answer row.
OwnRowsOnly(h) ==
    /\ \A b \in DOMAIN pc : (b # h /\ Id(h) # 0) => Id(b) # Id(h)
    /\ Cardinality({c \in CallsOf(h, "RecordImageRequest") : calls[h][c].ok}) <= 1
    /\ Cardinality({c \in CallsOf(h, "RecordImage") : calls[h][c].ok}) <= 1
    /\ Cardinality({c \in CallsOf(h, "RecordAnswer") : calls[h][c].ok}) <= 1
    /\ Id(h) # 0 =>
          /\ Cardinality(RowsOf(image_request, image, answer, Id(h))[1]) <= 1
          /\ Cardinality(RowsOf(image_request, image, answer, Id(h))[2]) <= 1
          /\ \A i \in RowsOf(image_request, image, answer, Id(h))[2] : i.index = 0
          /\ Len(RowsOf(image_request, image, answer, Id(h))[3]) <= 1

\* Whatever rows a step changes belong to the request of the handler that
\* took the step.
WritesOwnRows ==
    \A id \in Uuids :
        RowsOf(image_request', image', answer', id) # RowsOf(image_request, image, answer, id)
        => \E h \in DOMAIN pc :
              /\ calls'[h] # calls[h]
              /\ Id(h) = id
              /\ \A b \in DOMAIN pc \ {h} : calls'[b] = calls[b]

\* C40: a handler invocation writes only rows keyed by the request id it
\* generated itself: at most one ImageRequest row, at most one Image row
\* (index 0) and at most one Answer row, all with its own id, and its
\* MarkFailure and MarkSuccess calls never change the row of a request handled
\* by another concurrent invocation.
C40_WritesOnlyOwnRows ==
    /\ [](\A h \in DOMAIN pc : OwnRowsOnly(h))
    /\ [](\A r \in image_request : \E h \in DOMAIN pc : Id(h) = r.id)
    /\ [][WritesOwnRows]_vars

\* Two concurrent invocations have each a row of their own, one succeeded and
\* one failed.
C40_Witness ==
    \E a, b \in DOMAIN pc :
        /\ a # b
        /\ HasRequest(image_request, Id(a)) /\ HasRequest(image_request, Id(b))
        /\ Succeeded(RequestRow(image_request, Id(a)))
        /\ Failed(RequestRow(image_request, Id(b)))
====
